---- MODULE Spec2Model ----
(***************************************************************************)
(* Model of the expression/type analysis engine of vscode-mist             *)
(* (src/src/mistDocument.ts): JsonString offset mapping, the access-       *)
(* tracking expression context, the document cache and the validate walk.  *)
(***************************************************************************)
EXTENDS Integers, Sequences, FiniteSets, TLC

VARIABLES
    jstr,         \* JsonString under test: source, parsed, errors, escapes
    probe,        \* last index translation asked of jstr
    typeContext,  \* TrackExpressionContext: table (name -> stack), accessed
    outer,        \* per name, the lookup result seen before each open push
    lastOp,       \* the last context operation and what it returned
    document,     \* the document's current text (a text descriptor)
    fileData,     \* getData().data: the bindings of the selected data file
    rootNode,     \* MistDocument.rootNode: the text it was parsed from, or NoText
    template,     \* MistDocument.template: the text it is the value of, or NoText
    nodeTree,     \* MistDocument.nodeTree: the text whose layout it wraps, or NoText
    varList,      \* validate: vars, the Variable list
    diagnostics,  \* validate: the diagnostics collected so far
    lookups,      \* validate: identifiers checked against typeContext
    hasAccessibilityDepth,  \* validate: running depth of flagged nodes
    frames,       \* validate: the calls of validateNode in progress
    phase,        \* "idle", "walking" (a validate call in progress) or "done"
    returned,     \* what the last validate call returned
    valueTypes,   \* the valueType set on the string nodes of the cached trees
    validated,    \* the last completed validate call: its text and final state
    additionalProperties,  \* additionalProperties of the node schema supplied
    documents,    \* MistDocument.documents: uri -> MistDocument or null
    dataMap,      \* MistData.dataMap: dir -> the files indexed and their entries
    disk          \* the text of each data file as fs.readFileSync returns it

vars_js == <<jstr, probe>>
vars_ctx == <<typeContext, outer, lastOp>>
vars_doc == <<document, fileData, rootNode, template, nodeTree>>
vars_pass == <<varList, diagnostics, lookups, hasAccessibilityDepth, frames, phase, returned>>
vars_env == <<additionalProperties>>
vars_calls == <<valueTypes, validated>>
vars_ws == <<documents, dataMap, disk>>
vars == <<vars_js, vars_ctx, vars_doc, vars_pass, vars_env, vars_ws, vars_calls>>

(***************************************************************************)
(* Generic helpers                                                         *)
(***************************************************************************)
Range(s) == {s[i] : i \in 1..Len(s)}

RECURSIVE Flatten(_)
Flatten(ss) == IF ss = <<>> THEN <<>> ELSE Head(ss) \o Flatten(Tail(ss))

\* Array.prototype.findIndex, 0-based, -1 when no element satisfies P
FindIndex(s, P(_)) ==
    IF \E i \in 1..Len(s) : P(s[i])
    THEN (CHOOSE i \in 1..Len(s) : P(s[i]) /\ \A j \in 1..(i - 1) : ~P(s[j])) - 1
    ELSE -1

\* String.prototype.substring(from, to) on a 0-based character sequence
Substring(s, from, to) == SubSeq(s, from + 1, to)

\* String.prototype.charAt(i), 0-based
CharAt(s, i) == s[i + 1]

(***************************************************************************)
(* JsonString (mistDocument.ts 144-237)                                    *)
(***************************************************************************)
BS == "\\"
QUOTE == "\""
ControlChars == {"\t"}
HexDigits == {"0", "1", "4", "A"}

\* match(/^[0-9A-Fa-f]*/) on origin.substr(from, 4): length of the hex prefix
RECURSIVE HexPrefixLen(_, _, _)
HexPrefixLen(origin, from, n) ==
    IF n < 4 /\ from + n < Len(origin) /\ CharAt(origin, from + n) \in HexDigits
    THEN HexPrefixLen(origin, from, n + 1)
    ELSE n

\* String.fromCharCode(parseInt(hex, 16)): one UTF-16 unit
FromCharCode(hex) ==
    IF hex = <<"0", "0", "4", "1">> THEN "A"
    ELSE IF hex = <<"0", "0", "0", "A">> THEN "\n"
    ELSE "U"

\* the character a 2-character escape stands for, "" when the escape is invalid
SimpleEscape(c) ==
    CASE c = QUOTE -> QUOTE
      [] c = BS -> BS
      [] c = "/" -> "/"
      [] c = "b" -> "<backspace>"
      [] c = "f" -> "\f"
      [] c = "n" -> "\n"
      [] c = "r" -> "\r"
      [] c = "t" -> "\t"
      [] OTHER -> ""

JsonStringError(description, offset, length) ==
    [description |-> description, offset |-> offset, length |-> length]

\* an end of span that takes four digits for granted
escapeEnd_FourDigits(c2, i, hexLen) == (IF c2 = "u" THEN i + 4 ELSE i) + 2

\* i after "i += hex.length" of a unicode escape and "i += 2" of every escape
escapeEnd(c2, i, hexLen) == (IF c2 = "u" THEN i + hexLen ELSE i) + 2

\* the loop of JsonString.parse from position i on
RECURSIVE ParseLoop(_, _, _, _, _, _)
ParseLoop(origin, i, start, parsed, escapes, errors) ==
    IF i >= Len(origin)
    THEN [source |-> origin,
          parsed |-> IF Len(origin) > start
                     THEN parsed \o Substring(origin, start, Len(origin))
                     ELSE parsed,
          errors |-> errors,
          escapes |-> escapes]
    ELSE
      LET c == CharAt(origin, i) IN
      IF c \in ControlChars
      THEN ParseLoop(origin, i + 1, start, Append(parsed, c), escapes,
                     Append(errors, JsonStringError("Invalid characters in string", i, 1)))
      ELSE IF c = BS /\ i < Len(origin) - 1
      THEN
        LET p1 == IF i > start THEN parsed \o Substring(origin, start, i) ELSE parsed
            c2 == CharAt(origin, i + 1)
            hexLen == HexPrefixLen(origin, i + 2, 0)
            hex == Substring(origin, i + 2, i + 2 + hexLen)
            p2 == IF c2 = "u"
                  THEN IF hexLen # 4 THEN p1 ELSE Append(p1, FromCharCode(hex))
                  ELSE IF SimpleEscape(c2) = "" THEN p1 ELSE Append(p1, SimpleEscape(c2))
            e2 == IF c2 = "u"
                  THEN IF hexLen # 4
                       THEN Append(errors, JsonStringError("Invalid unicode sequence in string", i, 2 + hexLen))
                       ELSE errors
                  ELSE IF SimpleEscape(c2) = ""
                       THEN Append(errors, JsonStringError("Invalid escape character in string", i, 2))
                       ELSE errors
            i2 == escapeEnd(c2, i, hexLen)
        IN ParseLoop(origin, i2, i2, p2,
                     Append(escapes, [sourceIndex |-> i, sourceEnd |-> i2, parsedIndex |-> Len(p1)]),
                     e2)
      ELSE ParseLoop(origin, i + 1, start, parsed, escapes, errors)

\* new JsonString(source)
JsonString(source) == ParseLoop(source, 0, 0, <<>>, <<>>, <<>>)

sourceIndex(js, parsedIndex) ==
    IF Len(js.escapes) = 0 THEN parsedIndex
    ELSE
      LET AtOrAfter(e) == e.parsedIndex >= parsedIndex
          i == FindIndex(js.escapes, AtOrAfter)
          last == js.escapes[Len(js.escapes)]
      IN IF i >= 0
         THEN js.escapes[i + 1].sourceIndex - js.escapes[i + 1].parsedIndex + parsedIndex
         ELSE parsedIndex - last.parsedIndex - 1 + last.sourceEnd

\* parsedIndex without the "+ 1" for the character the last escape produces
parsedIndex_NoEscapeChar(js, srcIndex) ==
    IF Len(js.escapes) = 0 THEN srcIndex
    ELSE
      LET AtOrAfter(e) == e.sourceIndex >= srcIndex
          i == FindIndex(js.escapes, AtOrAfter)
          last == js.escapes[Len(js.escapes)]
      IN IF i >= 0
         THEN js.escapes[i + 1].parsedIndex - js.escapes[i + 1].sourceIndex + srcIndex
         ELSE IF srcIndex < last.sourceEnd
              THEN last.parsedIndex
              ELSE srcIndex - last.sourceEnd + last.parsedIndex

parsedIndex(js, srcIndex) ==
    IF Len(js.escapes) = 0 THEN srcIndex
    ELSE
      LET AtOrAfter(e) == e.sourceIndex >= srcIndex
          i == FindIndex(js.escapes, AtOrAfter)
          last == js.escapes[Len(js.escapes)]
      IN IF i >= 0
         THEN js.escapes[i + 1].parsedIndex - js.escapes[i + 1].sourceIndex + srcIndex
         ELSE IF srcIndex < last.sourceEnd
              THEN last.parsedIndex
              ELSE srcIndex - last.sourceEnd + last.parsedIndex + 1

(***************************************************************************)
(* ExpressionContext (browser/parser): a table of per-name stacks.         *)
(* TrackExpressionContext (mistDocument.ts 658-697) adds, per name, a      *)
(* stack of "was read" flags.  A context is [table, accessed], both        *)
(* functions from the names pushed so far.                                 *)
(***************************************************************************)
None == "<none>"

Last(s) == s[Len(s)]
Front(s) == SubSeq(s, 1, Len(s) - 1)

NewContext == [table |-> <<>>, accessed |-> <<>>]

\* f with f[k] replaced by v, k added to the domain when new
Put(f, k, v) == [x \in (DOMAIN f) \cup {k} |-> IF x = k THEN v ELSE f[x]]

StackOf(f, k) == IF k \in DOMAIN f THEN f[k] ELSE <<>>

\* ExpressionContext.push(key, value)
BasePush(table, key, value) == Put(table, key, Append(StackOf(table, key), value))

\* ExpressionContext.pop(key)
BasePop(table, key) ==
    IF StackOf(table, key) = <<>> THEN table ELSE Put(table, key, Front(table[key]))

\* ExpressionContext.get(key): the innermost binding, None when unbound
BaseGet(table, key) ==
    IF StackOf(table, key) = <<>> THEN None ELSE Last(table[key])

\* a get that sets the read flag of every entry of the key
TrackGet_MarkAll(ctx, key) ==
    [ctx EXCEPT !.accessed = Put(ctx.accessed, key,
                                 [i \in 1..Len(StackOf(ctx.accessed, key)) |-> TRUE])]

\* a get that leaves the read flag alone
TrackGet_NoMark(ctx, key) == ctx

\* TrackExpressionContext.get(key): the context after the read
TrackGet(ctx, key) ==
    LET list == StackOf(ctx.accessed, key) IN
    IF Len(list) > 0
    THEN [ctx EXCEPT !.accessed = Put(ctx.accessed, key, Append(Front(list), TRUE))]
    ELSE ctx

\* TrackExpressionContext.push(key, value)
TrackPush(ctx, key, value) ==
    [table |-> BasePush(ctx.table, key, value),
     accessed |-> Put(ctx.accessed, key, Append(StackOf(ctx.accessed, key), FALSE))]

\* TrackExpressionContext.pop(key): drops the flag and calls super.get(key)
TrackPop(ctx, key) ==
    [table |-> ctx.table,
     accessed |-> Put(ctx.accessed, key, Front(StackOf(ctx.accessed, key)))]

\* TrackExpressionContext.isAccessed(key)
isAccessed(ctx, key) ==
    LET list == StackOf(ctx.accessed, key) IN
    IF Len(list) > 0 THEN Last(list) ELSE TRUE

(***************************************************************************)
(* JSON nodes as utils/json parseJson (jsonc-parser) yields them: type,    *)
(* offset and length in the document, the value of a scalar, the raw text  *)
(* of a string, the properties of an object (key, key range, value node)   *)
(* and the items of an array.  Documents are described without offsets     *)
(* ([t, v] values) and placed as their compact serialisation lays them out.*)
(***************************************************************************)
NoNode == [type |-> "<absent>", offset |-> 0, length |-> 0, value |-> "",
           raw |-> <<>>, props |-> <<>>, items |-> <<>>]

Present(n) == n.type # "<absent>"

RECURSIVE Join(_)
Join(chars) == IF chars = <<>> THEN "" ELSE Head(chars) \o Join(Tail(chars))

JStr(chars) == [t |-> "string", v |-> chars]
JLit(type, token) == [t |-> type, v |-> token]
JObj(props) == [t |-> "object", v |-> props]
JArr(items) == [t |-> "array", v |-> items]
JTrue == JLit("boolean", "true")
JFalse == JLit("boolean", "false")
JNum(token) == JLit("number", token)

RECURSIVE JLength(_)
RECURSIVE JPropsLength(_)
RECURSIVE JItemsLength(_)
JLength(j) ==
    CASE j.t = "string" -> Len(j.v) + 2
      [] j.t = "object" -> 2 + JPropsLength(j.v)
      [] j.t = "array" -> 2 + JItemsLength(j.v)
      [] OTHER -> Len(j.v)

JPropsLength(ps) ==
    IF ps = <<>> THEN 0
    ELSE Len(Head(ps)[1]) + 3 + JLength(Head(ps)[2])
         + (IF Len(ps) > 1 THEN 1 + JPropsLength(Tail(ps)) ELSE 0)

JItemsLength(is) ==
    IF is = <<>> THEN 0
    ELSE JLength(Head(is)) + (IF Len(is) > 1 THEN 1 + JItemsLength(Tail(is)) ELSE 0)

RECURSIVE Place(_, _)
RECURSIVE PlaceProps(_, _)
RECURSIVE PlaceItems(_, _)
\* the node parseJson yields for value j serialised at offset off
Place(j, off) ==
    CASE j.t = "string" ->
           [type |-> "string", offset |-> off, length |-> Len(j.v) + 2, value |-> Join(j.v),
            raw |-> <<QUOTE>> \o j.v \o <<QUOTE>>, props |-> <<>>, items |-> <<>>]
      [] j.t = "object" ->
           [type |-> "object", offset |-> off, length |-> JLength(j), value |-> "",
            raw |-> <<>>, props |-> PlaceProps(j.v, off + 1), items |-> <<>>]
      [] j.t = "array" ->
           [type |-> "array", offset |-> off, length |-> JLength(j), value |-> "",
            raw |-> <<>>, props |-> <<>>, items |-> PlaceItems(j.v, off + 1)]
      [] OTHER ->
           [type |-> j.t, offset |-> off, length |-> Len(j.v), value |-> j.v,
            raw |-> <<>>, props |-> <<>>, items |-> <<>>]

PlaceProps(ps, off) ==
    IF ps = <<>> THEN <<>>
    ELSE LET k == Head(ps)[1]
             val == Place(Head(ps)[2], off + Len(k) + 3)
         IN <<[key |-> k, keyOffset |-> off, keyLength |-> Len(k) + 2, value |-> val]>>
            \o PlaceProps(Tail(ps), off + Len(k) + 3 + val.length + 1)

PlaceItems(is, off) ==
    IF is = <<>> THEN <<>>
    ELSE LET val == Place(Head(is), off)
         IN <<val>> \o PlaceItems(Tail(is), off + val.length + 1)

\* utils/json parseJson of the text that serialises j
parseJson(j) == Place(j, 0)

\* utils/json getPropertyNode(node, key): the value node of the property, or null
getPropertyNode(node, key) ==
    IF node.type = "object" /\ \E i \in 1..Len(node.props) : node.props[i].key = key
    THEN node.props[CHOOSE i \in 1..Len(node.props) :
                        /\ node.props[i].key = key
                        /\ \A j \in 1..(i - 1) : node.props[j].key # key].value
    ELSE NoNode

\* the key node (children[0]) of the property whose value node is at the offset
KeyNodeOf(node, key) ==
    LET i == CHOOSE i \in 1..Len(node.props) :
                 /\ node.props[i].key = key
                 /\ \A j \in 1..(i - 1) : node.props[j].key # key
    IN [type |-> "string", offset |-> node.props[i].keyOffset,
        length |-> node.props[i].keyLength]

IsTrue(n) == n.type = "boolean" /\ n.value = "true"
IsFalse(n) == n.type = "boolean" /\ n.value = "false"

(***************************************************************************)
(* findExpressionsInString (mistDocument.ts 2026-2049)                     *)
(***************************************************************************)
\* index (0-based) of the first occurrence of the characters pat at or
\* after from, -1 when there is none
RECURSIVE IndexOf(_, _, _)
IndexOf(s, pat, from) ==
    IF from + Len(pat) > Len(s) THEN -1
    ELSE IF SubSeq(s, from + 1, from + Len(pat)) = pat THEN from
    ELSE IndexOf(s, pat, from + 1)

\* the matches of /\$\{(.*?)\}/mg in rawString from lastIndex on
\* matches whose offset is that of the match, not of its first group
RECURSIVE ExecAll_MatchIndex(_, _)
ExecAll_MatchIndex(rawString, lastIndex) ==
    LET open == IndexOf(rawString, <<"$", "{">>, lastIndex)
        close == IF open < 0 THEN -1 ELSE IndexOf(rawString, <<"}">>, open + 2)
    IN IF open < 0 \/ close < 0 THEN <<>>
       ELSE <<[string |-> JsonString(Substring(rawString, open + 2, close)),
               offset |-> open]>>
            \o ExecAll_MatchIndex(rawString, close + 1)

RECURSIVE ExecAll(_, _)
ExecAll(rawString, lastIndex) ==
    LET open == IndexOf(rawString, <<"$", "{">>, lastIndex)
        close == IF open < 0 THEN -1 ELSE IndexOf(rawString, <<"}">>, open + 2)
    IN IF open < 0 \/ close < 0 THEN <<>>
       ELSE <<[string |-> JsonString(Substring(rawString, open + 2, close)),
               offset |-> open + 2]>>
            \o ExecAll(rawString, close + 1)

\* a findExpressionsInString without the branch of the $: shorthand
findExpressionsInString_NoShorthand(stringNode) == ExecAll(stringNode.raw, 0)

findExpressionsInString(stringNode) ==
    LET rawString == stringNode.raw IN
    IF Len(rawString) >= 3 /\ SubSeq(rawString, 1, 3) = <<QUOTE, "$", ":">>
    THEN <<[string |-> JsonString(Substring(rawString, 3, Len(rawString) - 1)),
            offset |-> 3]>>
    ELSE ExecAll(rawString, 0)

(***************************************************************************)
(* getCurrentExpression (mistDocument.ts 461-517): the scan from the end   *)
(* of exp toward its start, index 0-based as in the code.                  *)
(***************************************************************************)
Operators == {",", "?", ":", "+", "-", "*", "/", "%", "&", "|", "!", ">", "<", "="}

\* braceDict
braceDict(c) == CASE c = "{" -> "}" [] c = "(" -> ")" [] OTHER -> "]"

\* braceCount = {}: no key yet, every count read as 0
NoBraces == [c \in {")", "}", "]"} |-> 0]

\* while (--index >= 0) that ends at the quote: the index it leaves, -1 when
\* no character before is the quote
RECURSIVE quoteBefore(_, _, _)
quoteBefore(exp, index, quote) ==
    IF index - 1 < 0 THEN -1
    ELSE IF exp[index] = quote THEN index - 1
    ELSE quoteBefore(exp, index - 1, quote)

\* the while loop from index on: the index it leaves, that of the stop, or
\* -1 at the start of exp, or -2 after a quote without a partner
RECURSIVE scanBack(_, _, _)
scanBack(exp, index, braceCount) ==
    IF index < 0 THEN index
    ELSE LET c == exp[index + 1] IN
         CASE c \in Operators ->
                IF \A k \in DOMAIN braceCount : braceCount[k] = 0 THEN index
                ELSE scanBack(exp, index - 1, braceCount)
           [] c \in {"(", "{", "["} ->
                IF braceCount[braceDict(c)] - 1 < 0 THEN index
                ELSE scanBack(exp, index - 1, [braceCount EXCEPT ![braceDict(c)] = @ - 1])
           [] c \in {"'", QUOTE} ->
                scanBack(exp, quoteBefore(exp, index, c) - 1, braceCount)
           [] c \in {"]", ")", "}"} ->
                scanBack(exp, index - 1, [braceCount EXCEPT ![c] = @ + 1])
           [] OTHER -> scanBack(exp, index - 1, braceCount)

\* String.prototype.substr(start): from the end when start is negative
substr(str, start) ==
    SubSeq(str, (IF start < 0 THEN (IF Len(str) + start < 0 THEN 0 ELSE Len(str) + start)
                 ELSE start) + 1, Len(str))

RECURSIVE trimStart(_)
trimStart(str) == IF str # <<>> /\ Head(str) = " " THEN trimStart(Tail(str)) ELSE str

RECURSIVE trimEnd(_)
trimEnd(str) ==
    IF str # <<>> /\ str[Len(str)] = " " THEN trimEnd(SubSeq(str, 1, Len(str) - 1)) ELSE str

\* String.prototype.trim()
trim(str) == trimEnd(trimStart(str))

getCurrentExpression(exp) == trim(substr(exp, scanBack(exp, Len(exp) - 1, NoBraces) + 1))

(***************************************************************************)
(* getPrefix (519-535), getFunctionParamsCount (537-588) and               *)
(* getSignatureInfo (590-643)                                              *)
(***************************************************************************)
IdStart == {"_", "a", "b", "c", "f", "m", "x"}
WordChar == IdStart \cup {"1", "2", "3"}

\* [_a-zA-Z]\w* over the characters of the model
IsIdentifier(str) ==
    /\ str # <<>>
    /\ str[1] \in IdStart
    /\ \A i \in 2..Len(str) : str[i] \in WordChar

\* the position (1-based) of the last dot of exp, 0 when it has none
LastDot(exp) ==
    IF \E i \in 1..Len(exp) : exp[i] = "."
    THEN CHOOSE i \in 1..Len(exp) : exp[i] = "." /\ \A j \in (i + 1)..Len(exp) : exp[j] # "."
    ELSE 0

\* getPrefix(exp): /(.*)\.([_a-zA-Z]\w*)?$/ matches at the last dot when what
\* follows it is an identifier or nothing; prefix null and function
\* undefined are told by hasPrefix and hasFunction
getPrefix(exp) ==
    IF LastDot(exp) > 0
       /\ (LastDot(exp) = Len(exp) \/ IsIdentifier(SubSeq(exp, LastDot(exp) + 1, Len(exp))))
    THEN [hasPrefix |-> TRUE, prefix |-> SubSeq(exp, 1, LastDot(exp) - 1),
          hasFunction |-> LastDot(exp) < Len(exp),
          function |-> SubSeq(exp, LastDot(exp) + 1, Len(exp))]
    ELSE [hasPrefix |-> FALSE, prefix |-> <<>>, hasFunction |-> TRUE, function |-> exp]

\* braceDict of getFunctionParamsCount
openerOf(c) == CASE c = "}" -> "{" [] c = ")" -> "(" [] OTHER -> "["

NoOpeners == [c \in {"(", "{", "["} |-> 0]

\* while (++index < exp.length) that ends at the quote: the index it leaves,
\* exp.length when no character after is the quote
RECURSIVE quoteAfter(_, _, _)
quoteAfter(exp, index, quote) ==
    IF index + 1 >= Len(exp) THEN Len(exp)
    ELSE IF exp[index + 2] = quote THEN index + 1
    ELSE quoteAfter(exp, index + 1, quote)

\* a scan that counts every comma
RECURSIVE scanParams_EveryComma(_, _, _, _)
scanParams_EveryComma(exp, index, braceCount, commaCount) ==
    IF index >= Len(exp) THEN [index |-> index, commaCount |-> commaCount]
    ELSE LET c == exp[index + 1] IN
         CASE c = "," -> scanParams_EveryComma(exp, index + 1, braceCount, commaCount + 1)
           [] c \in {"(", "{", "["} ->
                scanParams_EveryComma(exp, index + 1, [braceCount EXCEPT ![c] = @ + 1],
                                      commaCount)
           [] c \in {"'", QUOTE} ->
                scanParams_EveryComma(exp, quoteAfter(exp, index, c) + 1, braceCount, commaCount)
           [] c \in {"]", ")", "}"} ->
                IF braceCount[openerOf(c)] - 1 < 0
                THEN [index |-> index, commaCount |-> commaCount]
                ELSE scanParams_EveryComma(exp, index + 1,
                                           [braceCount EXCEPT ![openerOf(c)] = @ - 1], commaCount)
           [] OTHER -> scanParams_EveryComma(exp, index + 1, braceCount, commaCount)

\* the while loop of getFunctionParamsCount from index on: the index it
\* leaves and the commas it has counted
RECURSIVE scanParams(_, _, _, _)
scanParams(exp, index, braceCount, commaCount) ==
    IF index >= Len(exp) THEN [index |-> index, commaCount |-> commaCount]
    ELSE LET c == exp[index + 1] IN
         CASE c = "," ->
                scanParams(exp, index + 1, braceCount,
                           IF \A k \in DOMAIN braceCount : braceCount[k] = 0
                           THEN commaCount + 1 ELSE commaCount)
           [] c \in {"(", "{", "["} ->
                scanParams(exp, index + 1, [braceCount EXCEPT ![c] = @ + 1], commaCount)
           [] c \in {"'", QUOTE} ->
                scanParams(exp, quoteAfter(exp, index, c) + 1, braceCount, commaCount)
           [] c \in {"]", ")", "}"} ->
                IF braceCount[openerOf(c)] - 1 < 0
                THEN [index |-> index, commaCount |-> commaCount]
                ELSE scanParams(exp, index + 1, [braceCount EXCEPT ![openerOf(c)] = @ - 1],
                                commaCount)
           [] OTHER -> scanParams(exp, index + 1, braceCount, commaCount)

\* exp.substring(start, end), both clamped to the length
substring(str, start, end) ==
    SubSeq(str, (IF start > Len(str) THEN Len(str) ELSE start) + 1,
           IF end > Len(str) THEN Len(str) ELSE end)

\* /^\s*$/ over the characters of the model
IsBlank(str) == \A i \in 1..Len(str) : str[i] = " "

getFunctionParamsCount(exp) ==
    IF IsBlank(substring(exp, 1, scanParams(exp, 1, NoOpeners, 0).index)) THEN 0
    ELSE scanParams(exp, 1, NoOpeners, 0).commaCount + 1

\* the while loop of getSignatureInfo from index on: the index it leaves,
\* whether it stopped and the commas it has counted
RECURSIVE scanSignature(_, _, _, _)
scanSignature(exp, index, braceCount, commaCount) ==
    IF index < 0 THEN [index |-> index, stop |-> FALSE, commaCount |-> commaCount]
    ELSE LET c == exp[index + 1] IN
         CASE c = "," ->
                scanSignature(exp, index - 1, braceCount,
                              IF \A k \in DOMAIN braceCount : braceCount[k] = 0
                              THEN commaCount + 1 ELSE commaCount)
           [] c \in {"(", "{", "["} ->
                IF braceCount[braceDict(c)] - 1 < 0
                THEN [index |-> index, stop |-> TRUE, commaCount |-> commaCount]
                ELSE scanSignature(exp, index - 1, [braceCount EXCEPT ![braceDict(c)] = @ - 1],
                                   commaCount)
           [] c \in {"'", QUOTE} ->
                scanSignature(exp, quoteBefore(exp, index, c) - 1, braceCount, commaCount)
           [] c \in {"]", ")", "}"} ->
                scanSignature(exp, index - 1, [braceCount EXCEPT ![c] = @ + 1], commaCount)
           [] OTHER -> scanSignature(exp, index - 1, braceCount, commaCount)

\* the result of getSignatureInfo once the loop has left r
signatureInfoOf(exp, r) ==
    IF r.stop
    THEN [null |-> FALSE, paramIndex |-> r.commaCount,
          info |-> getPrefix(getCurrentExpression(trim(substring(exp, 0, r.index))))]
    ELSE [null |-> TRUE]

getSignatureInfo(exp) == signatureInfoOf(exp, scanSignature(exp, Len(exp) - 1, NoBraces, 0))

(***************************************************************************)
(* Expressions (browser/lexer, browser/parser): the lexer yields tokens or *)
(* one lexical error; the parser yields the expression with its identifier *)
(* nodes, or an error with offset and length; check(context) reads every   *)
(* identifier from the context and reports the unbound ones.               *)
(***************************************************************************)
IdStartChars ==
    {"_", "a", "b", "c", "d", "e", "f", "g", "h", "i", "j", "k", "l", "m",
     "n", "o", "p", "q", "r", "s", "t", "u", "v", "w", "x", "y", "z"}
DigitChars == {"0", "1", "2"}
OperatorChars == {"+", "-", "*"}

\* end (exclusive, 0-based) of the run of characters of set cs that starts at i
RECURSIVE RunEnd(_, _, _)
RunEnd(text, i, cs) ==
    IF i < Len(text) /\ CharAt(text, i) \in cs THEN RunEnd(text, i + 1, cs) ELSE i

Token(kind, text, offset, length) ==
    [kind |-> kind, text |-> text, offset |-> offset, length |-> length]

\* the tokens of text from position i on; a lexical error ends the stream
RECURSIVE Lex(_, _)
Lex(text, i) ==
    IF i >= Len(text) THEN <<>>
    ELSE
      LET c == CharAt(text, i) IN
      CASE c = " " -> Lex(text, i + 1)
        [] c \in IdStartChars ->
             LET e == RunEnd(text, i, IdStartChars \cup DigitChars)
             IN <<Token("id", Join(Substring(text, i, e)), i, e - i)>> \o Lex(text, e)
        [] c \in DigitChars ->
             LET e == RunEnd(text, i, DigitChars)
             IN <<Token("num", Join(Substring(text, i, e)), i, e - i)>> \o Lex(text, e)
        [] c \in OperatorChars -> <<Token("op", c, i, 1)>> \o Lex(text, i + 1)
        [] c = "'" ->
             LET e == IndexOf(text, <<"'">>, i + 1)
             IN IF e < 0
                THEN <<Token("error", "unclosed string", i, Len(text) - i)>>
                ELSE <<Token("str", "", i, e + 1 - i)>> \o Lex(text, e + 1)
        [] OTHER -> <<Token("error", "unexpected character", i, 1)>>

IsOperand(t) == t.kind \in {"id", "num", "str"}

\* position (1-based) of the first token that breaks operand (op operand)*,
\* Len + 1 when an operand is missing at the end, 0 when the tokens are fine
RECURSIVE FirstMisplaced(_, _)
FirstMisplaced(toks, k) ==
    IF k > Len(toks) THEN (IF k % 2 = 1 THEN k ELSE 0)
    ELSE IF (k % 2 = 1) = IsOperand(toks[k]) THEN FirstMisplaced(toks, k + 1)
    ELSE k

ExpressionNode(ids, errorMessage, errorOffset, errorLength) ==
    [ids |-> ids, errorMessage |-> errorMessage,
     errorOffset |-> errorOffset, errorLength |-> errorLength]

\* the parser on the tokens toks of text, bad being FirstMisplaced
parseTokens(text, toks, bad) ==
    IF toks # <<>> /\ toks[Len(toks)].kind = "error"
    THEN ExpressionNode(<<>>, toks[Len(toks)].text,
                        toks[Len(toks)].offset, toks[Len(toks)].length)
    ELSE IF bad = 0 THEN ExpressionNode(SelectSeq(toks, LAMBDA t : t.kind = "id"), "", 0, 0)
    ELSE IF bad > Len(toks)
    THEN ExpressionNode(<<>>, "expression expected", Len(text), 0)
    ELSE ExpressionNode(<<>>, "unexpected token", toks[bad].offset, toks[bad].length)

\* browser/template parse(text): {expression, errorMessage, errorOffset, errorLength}
parse(text) == parseTokens(text, Lex(text, 0), FirstMisplaced(Lex(text, 0), 1))

ExpressionError(description, offset, length, level) ==
    [description |-> description, offset |-> offset, length |-> length, level |-> level]

\* ExpressionNode.check(context): the context after the reads and the errors
RECURSIVE CheckIds(_, _, _)
CheckIds(ids, ctx, errors) ==
    IF ids = <<>> THEN [ctx |-> ctx, errors |-> errors]
    ELSE LET id == Head(ids) IN
         CheckIds(Tail(ids), TrackGet(ctx, id.text),
                  IF BaseGet(ctx.table, id.text) = None
                  THEN Append(errors, ExpressionError("undefined", id.offset, id.length, "Error"))
                  ELSE errors)

check(expNode, ctx) == CheckIds(expNode.ids, ctx, <<>>)

(***************************************************************************)
(* Schemas (schema.ts, template_schema.ts): a schema names the declared    *)
(* properties with the type each accepts and says whether other            *)
(* properties are allowed.                                                 *)
(***************************************************************************)
Schema(properties, additional) ==
    [properties |-> properties, additionalProperties |-> additional]

templateSchema ==
    Schema([k \in {"layout", "data", "state", "exp-version", "identifier",
                   "disable-accessibility-check"} |->
               CASE k = "exp-version" -> "number"
                 [] k = "identifier" -> "string"
                 [] k = "disable-accessibility-check" -> "boolean"
                 [] OTHER -> "any"],
           "false")

\* the kinds of node that have no children
LeafKinds == {"text", "button"}

\* new NodeSchema().getSchema(node): the schema of the kind of the node; a
\* leaf kind declares no children
NodeSchema(node) ==
    Schema([k \in {"type", "text", "style", "children", "repeat", "vars", "on-tap", "gone"}
                  \ (IF /\ getPropertyNode(node, "type").type = "string"
                         /\ getPropertyNode(node, "type").value \in LeafKinds
                      THEN {"children"} ELSE {}) |->
               CASE k = "type" -> "string"
                 [] k = "style" -> "object"
                 [] k = "children" -> "array"
                 [] k = "gone" -> "boolean"
                 [] OTHER -> "any"],
           additionalProperties)

StyleProperties ==
    {"is-accessibility-element", "accessibility-label", "clip", "content-mode", "width"}

(***************************************************************************)
(* Types (browser/type) by name, and the type of a value node              *)
(***************************************************************************)
\* es, the expressions of the string node, are one expression over the whole string
WholeExpression(node, es) ==
    /\ Len(es) = 1
    /\ es[1].string.errors = <<>>
    /\ \/ es[1].offset = 3 /\ Len(es[1].string.source) = node.length - 5
       \/ es[1].offset = 3 /\ Len(es[1].string.source) = node.length - 4
                           /\ SubSeq(node.raw, 2, 3) = <<"$", ":">>

\* the type of the parsed expression e: the type of the one identifier it is
TypeOfExpression(e, table) ==
    IF e.errorMessage = "" /\ Len(e.ids) = 1 /\ BaseGet(table, e.ids[1].text) # None
    THEN BaseGet(table, e.ids[1].text)
    ELSE "Any"

\* the type of a string node whose expressions are es
TypeOfString(node, es, table) ==
    IF es = <<>> THEN "String"
    ELSE IF WholeExpression(node, es)
    THEN TypeOfExpression(parse(es[1].string.parsed), table)
    ELSE "String"

\* computeExpressionTypeInObject / Type.typeof / getDataType of a value node
TypeOfNode(node, table) ==
    CASE node.type = "number" -> "Number"
      [] node.type = "boolean" -> "Boolean"
      [] node.type = "object" -> "Object"
      [] node.type = "array" -> "Array"
      [] node.type = "string" -> TypeOfString(node, findExpressionsInString(node), table)
      [] OTHER -> "Any"

\* a value of type t fits the schema type s
Fits(s, t) ==
    \/ s = "any"
    \/ t = "Any"
    \/ s = "string" /\ t = "String"
    \/ s = "number" /\ t = "Number"
    \/ s = "boolean" /\ t = "Boolean"
    \/ s = "object" /\ t = "Object"
    \/ s = "array" /\ t = "Array"

\* node.valueType of a value node, types being the valueType set on string
\* nodes (by offset)
ValueTypeOf(node, types) ==
    IF node.type = "string" THEN types[node.offset] ELSE TypeOfNode(node, <<>>)

\* schema.ts validateJsonNode(valueNode, s): the nodes that do not fit type s
validateJsonNode(valueNode, s, types) ==
    IF Fits(s, ValueTypeOf(valueNode, types)) THEN <<>>
    ELSE <<[node |-> valueNode, error |-> "schema"]>>

\* no valueType set on any node of the root tree or of the node tree
NoTypes == [root |-> <<>>, tree |-> <<>>]

\* validate.resolveValueTypesInNode(node): a string node keeps the valueType
\* it has, or gets the type of its value in the context
RECURSIVE resolveValueTypesInNode(_, _, _)
RECURSIVE resolveValueTypesInNodes(_, _, _)
resolveValueTypesInNode(types, node, table) ==
    CASE node.type = "string" ->
           IF node.offset \in DOMAIN types THEN types
           ELSE Put(types, node.offset,
                    TypeOfString(node, findExpressionsInString(node), table))
      [] node.type = "array" -> resolveValueTypesInNodes(types, node.items, table)
      [] node.type = "object" ->
           resolveValueTypesInNodes(types, [k \in 1..Len(node.props) |-> node.props[k].value],
                                    table)
      [] OTHER -> types

resolveValueTypesInNodes(types, nodes, table) ==
    IF nodes = <<>> THEN types
    ELSE resolveValueTypesInNodes(resolveValueTypesInNode(types, Head(nodes), table),
                                  Tail(nodes), table)

(***************************************************************************)
(* MistDocument.validate (mistDocument.ts 1320-1697): the closures.  The   *)
(* pass state st is [ctx, vars, diagnostics, lookups, types]: the          *)
(* typeContext, the Variable list, the diagnostics, the valueType of the   *)
(* string nodes of the tree at hand and, for every identifier checked      *)
(* against typeContext, the string node it stands in (at), the offset of   *)
(* its expression in the node (exp), what it resolved to (value) and the   *)
(* innermost Variable of its name (binder).                                *)
(***************************************************************************)
Diagnostic(offset, length, message, severity) ==
    [offset |-> offset, length |-> length, message |-> message, severity |-> severity]

nodeRange(node, message, severity) == Diagnostic(node.offset, node.length, message, severity)

\* no answer of a query kept
NoProbe == [kind |-> "none", at |-> 0, to |-> 0, back |-> 0]

Variable(name, type, valueNode, hasNode, keyOffset, keyLength, hasUri) ==
    [name |-> name, type |-> type, valueNode |-> valueNode, hasNode |-> hasNode,
     keyOffset |-> keyOffset, keyLength |-> keyLength, hasUri |-> hasUri]

\* what the pass keeps of a pushed Variable: its name, type and source node
Pushed(v, type) ==
    [name |-> v.name, type |-> type, hasNode |-> v.hasNode,
     keyOffset |-> v.keyOffset, keyLength |-> v.keyLength, hasUri |-> v.hasUri]

\* new Variable(name, type): no value, no node
TypedVariable(name, type) == Variable(name, type, NoNode, FALSE, 0, 0, FALSE)

\* vars.push(v) and typeContext.push(v.name, v.type) once v.type is type
pushTyped(st, v, type) ==
    [st EXCEPT !.vars = Append(@, Pushed(v, type)),
               !.ctx = TrackPush(@, v.name, type)]

\* validate.pushVariable(v, isConst)
pushVariable(st, v) ==
    pushTyped(st, v, IF v.type # "" THEN v.type ELSE TypeOfNode(v.valueNode, st.ctx.table))

\* findLastIndex(vars, v => v.name === key), 1-based, 0 when absent
findLastIndex(vs, key) ==
    IF \E i \in 1..Len(vs) : vs[i].name = key
    THEN CHOOSE i \in 1..Len(vs) :
             vs[i].name = key /\ \A j \in (i + 1)..Len(vs) : vs[j].name # key
    ELSE 0

RemoveAt(seq, i) == SubSeq(seq, 1, i - 1) \o SubSeq(seq, i + 1, Len(seq))

\* validate.pop(key) once findLastIndex gave index
popAt(st, key, index) ==
    [st EXCEPT
       !.diagnostics = IF /\ index > 0 /\ ~isAccessed(st.ctx, key)
                          /\ st.vars[index].hasNode /\ ~st.vars[index].hasUri
                       THEN Append(@, Diagnostic(st.vars[index].keyOffset, st.vars[index].keyLength,
                                                 "unused-variable", "Warning"))
                       ELSE @,
       !.vars = IF index > 0 THEN RemoveAt(@, index) ELSE @,
       !.ctx = TrackPop(@, key)]

\* validate.pop(key)
pop(st, key) == popAt(st, key, findLastIndex(st.vars, key))

RECURSIVE popAll(_, _)
popAll(st, keys) == IF keys = <<>> THEN st ELSE popAll(pop(st, Head(keys)), Tail(keys))

\* the key offset of the innermost Variable of the list named key when it
\* comes from a node of the document, -1 otherwise
Binder(vs, key) ==
    LET index == findLastIndex(vs, key)
    IN IF index > 0 /\ vs[index].hasNode THEN vs[index].keyOffset ELSE -1

RECURSIVE PushAllTrue(_, _)
PushAllTrue(ctx, names) ==
    IF names = <<>> THEN ctx ELSE PushAllTrue(TrackPush(ctx, Head(names), "true"), Tail(names))

\* range(start + exp.offset + node.offset, end - start)
RangeFrom(node, exp, start, end) ==
    [offset |-> start + exp.offset + node.offset, length |-> end - start]

\* document offset and length of the range [offset, offset + length) of exp
ExpRange(node, exp, offset, length) ==
    RangeFrom(node, exp, sourceIndex(exp.string, offset), sourceIndex(exp.string, offset + length))

DiagnosticAt(r, message, severity) == Diagnostic(r.offset, r.length, message, severity)

\* one Error per identifier of ids, on the identifier
identifierDiagnostics(node, exp, ids, message) ==
    [k \in 1..Len(ids) |->
        DiagnosticAt(ExpRange(node, exp, ids[k].offset, ids[k].length), message, "Error")]

\* the identifiers of scopeVars that the disposable context ctx saw read
sameScopeIds(ids, scopeVars, ctx) ==
    SelectSeq(ids, LAMBDA id : id.text \in Range(scopeVars) /\ isAccessed(ctx, id.text))

\* the string branch after expNode.check(typeContext) gave checked
validateChecked(st, node, exp, scopeVars, expNode, checked) ==
    [st EXCEPT
       !.ctx = checked.ctx,
       !.diagnostics =
           @ \o [k \in 1..Len(checked.errors) |->
                    DiagnosticAt(ExpRange(node, exp, checked.errors[k].offset,
                                          checked.errors[k].length),
                                 checked.errors[k].description, checked.errors[k].level)]
             \o (IF Len(scopeVars) > 0
                 THEN identifierDiagnostics(node, exp,
                          sameScopeIds(expNode.ids, scopeVars,
                                       check(expNode, PushAllTrue(NewContext, scopeVars)).ctx),
                          "same-scope")
                 ELSE <<>>),
       !.lookups =
           @ \o [k \in 1..Len(expNode.ids) |->
                    [at |-> node.offset, exp |-> exp.offset, name |-> expNode.ids[k].text,
                     upTo |-> Substring(exp.string.parsed, 0,
                                        expNode.ids[k].offset + expNode.ids[k].length),
                     value |-> BaseGet(st.ctx.table, expNode.ids[k].text),
                     binder |-> Binder(st.vars, expNode.ids[k].text)]]]

\* the string branch after parse(exp.string.parsed) gave expNode
validateParsed(st, node, exp, scopeVars, expNode) ==
    IF expNode.errorMessage # ""
    THEN [st EXCEPT !.diagnostics =
             Append(@, DiagnosticAt(ExpRange(node, exp, expNode.errorOffset, expNode.errorLength),
                                    "syntax", "Error"))]
    ELSE validateChecked(st, node, exp, scopeVars, expNode, check(expNode, st.ctx))

\* validate.validate, string branch, for one expression of the string node
validateExpression(st, node, exp, scopeVars) ==
    IF Len(exp.string.errors) > 0 THEN st
    ELSE validateParsed(st, node, exp, scopeVars, parse(exp.string.parsed))

\* a loop over the expressions that ends at the first one that fails to parse
RECURSIVE validateExpressions_StopAtError(_, _, _, _)
validateExpressions_StopAtError(st, node, exps, scopeVars) ==
    IF exps = <<>> THEN st
    ELSE IF parse(Head(exps).string.parsed).errorMessage # ""
    THEN validateExpression(st, node, Head(exps), scopeVars)
    ELSE validateExpressions_StopAtError(validateExpression(st, node, Head(exps), scopeVars),
                                         node, Tail(exps), scopeVars)

\* expressions.forEach(exp => ...) of the string branch
RECURSIVE validateExpressions(_, _, _, _)
validateExpressions(st, node, exps, scopeVars) ==
    IF exps = <<>> THEN st
    ELSE validateExpressions(validateExpression(st, node, Head(exps), scopeVars),
                             node, Tail(exps), scopeVars)

\* validate.validate(node, scopeVars)
RECURSIVE validate(_, _, _)
RECURSIVE validateEach(_, _, _)
validate(st, node, scopeVars) ==
    CASE node.type = "object" ->
           validateEach(st, [k \in 1..Len(node.props) |-> node.props[k].value], scopeVars)
      [] node.type = "array" -> validateEach(st, node.items, scopeVars)
      [] node.type = "string" ->
           validateExpressions(st, node, findExpressionsInString(node), scopeVars)
      [] OTHER -> st

validateEach(st, nodes, scopeVars) ==
    IF nodes = <<>> THEN st
    ELSE validateEach(validate(st, Head(nodes), scopeVars), Tail(nodes), scopeVars)

\* a pushVarsDict that leaves the key of the value among the scope variables
RECURSIVE pushVarsDictFrom_OwnKeyInScope(_, _, _, _)
pushVarsDictFrom_OwnKeyInScope(st, node, k, pushed) ==
    IF k > Len(node.props) THEN [st |-> st, pushed |-> pushed]
    ELSE pushVarsDictFrom_OwnKeyInScope(
             pushVariable(
                 validate(st, node.props[k].value,
                          [i \in 1..Len(node.props) |-> node.props[i].key]),
                 Variable(node.props[k].key, "", node.props[k].value, TRUE,
                          node.props[k].keyOffset, node.props[k].keyLength, FALSE)),
             node, k + 1, Append(pushed, node.props[k].key))

\* validate.pushVarsDict(node, isConst), from property k on: [st, pushed]
RECURSIVE pushVarsDictFrom(_, _, _, _)
pushVarsDictFrom(st, node, k, pushed) ==
    IF k > Len(node.props) THEN [st |-> st, pushed |-> pushed]
    ELSE pushVarsDictFrom(
             pushVariable(
                 validate(st, node.props[k].value,
                          SelectSeq([i \in 1..Len(node.props) |-> node.props[i].key],
                                    LAMBDA v : v # node.props[k].key)),
                 Variable(node.props[k].key, "", node.props[k].value, TRUE,
                          node.props[k].keyOffset, node.props[k].keyLength, FALSE)),
             node, k + 1, Append(pushed, node.props[k].key))

pushVarsDict(st, node) == pushVarsDictFrom(st, node, 1, <<>>)

\* resolveValueTypesInNode(valueNode) on the pass state
resolveValueTypes(st, node) ==
    [st EXCEPT !.types = resolveValueTypesInNode(@, node, st.ctx.table)]

\* the diagnostics validateProperty makes of the errors of validateJsonNode
schemaWarnings(errors) ==
    [k \in 1..Len(errors) |-> nodeRange(errors[k].node, errors[k].error, "Warning")]

\* validateProperty after validate(valueNode): the schema of the property
reportProperty(st, prop, schema) ==
    IF prop.key \in DOMAIN schema.properties
    THEN [st EXCEPT !.diagnostics =
             @ \o schemaWarnings(validateJsonNode(prop.value, schema.properties[prop.key],
                                                  st.types))]
    ELSE IF schema.additionalProperties \in {"false", "absent"}
    THEN [st EXCEPT !.diagnostics =
             Append(@, Diagnostic(prop.keyOffset, prop.keyLength, "unknown-property", "Warning"))]
    ELSE st

\* a validateProperty that validates the value of declared properties only
validateProperty_DeclaredOnly(st, prop, schema) ==
    reportProperty(resolveValueTypes(IF prop.key \in DOMAIN schema.properties
                                     THEN validate(st, prop.value, <<>>) ELSE st,
                                     prop.value),
                   prop, schema)

\* validate.validateProperty(node, schema) for the property prop
validateProperty(st, prop, schema) ==
    reportProperty(resolveValueTypes(validate(st, prop.value, <<>>), prop.value),
                   prop, schema)

(***************************************************************************)
(* Documents: templates built from options per node.  A node is written    *)
(* with its properties in the order type, repeat, vars, on-tap, text, foo, *)
(* style, children; foo is a property the node schema does not declare.    *)
(***************************************************************************)
MaxChildren == 2

\* consecutive validate calls on one text that are told apart
MaxCalls == 2

\* "${" chars "}"
Exp(chars) == <<"$", "{">> \o chars \o <<"}">>

TextOf(t) ==
    CASE t = "a" -> Exp(<<"a">>)
      [] t = "b" -> Exp(<<"b">>)
      [] t = "a b" -> Exp(<<"a">>) \o <<" ">> \o Exp(<<"b">>)
      [] t = "_item_" -> Exp(<<"_", "i", "t", "e", "m", "_">>)
      [] t = "_index_" -> Exp(<<"_", "i", "n", "d", "e", "x", "_">>)
      [] t = "_event_" -> Exp(<<"_", "e", "v", "e", "n", "t", "_">>)
      [] t = "_width_" -> Exp(<<"_", "w", "i", "d", "t", "h", "_">>)
      [] t = "nope" -> Exp(<<"n", "o", "p", "e">>)
      [] t = "flag" -> Exp(<<"f", "l", "a", "g">>)
      [] t = "items" -> Exp(<<"i", "t", "e", "m", "s">>)
      [] t = "a+" -> Exp(<<"a", "+">>)
      [] t = "'a" -> Exp(<<"'", "a">>)
      [] t = "a+ b" -> Exp(<<"a", "+">>) \o <<" ">> \o Exp(<<"b">>)
      [] t = "a+ a" -> Exp(<<"a", "+">>) \o <<" ">> \o Exp(<<"a">>)
      [] t = "b a+" -> Exp(<<"b">>) \o <<" ">> \o Exp(<<"a", "+">>)
      [] t = "'a b" -> Exp(<<"'", "a">>) \o <<" ">> \o Exp(<<"b">>)
      [] OTHER -> <<"h", "i">>

VarsOf(v) ==
    CASE v = "{a}" -> JObj(<< <<"a", JNum("1")>> >>)
      [] v = "{a,b=a}" -> JObj(<< <<"a", JNum("1")>>, <<"b", JStr(TextOf("a"))>> >>)
      [] v = "{b=a,a}" -> JObj(<< <<"b", JStr(TextOf("a"))>>, <<"a", JNum("1")>> >>)
      [] v = "[{a},{b=a}]" -> JArr(<< JObj(<< <<"a", JNum("1")>> >>),
                                     JObj(<< <<"b", JStr(TextOf("a"))>> >>) >>)
      [] v = "[{a},{a=a}]" -> JArr(<< JObj(<< <<"a", JNum("1")>> >>),
                                     JObj(<< <<"a", JStr(TextOf("a"))>> >>) >>)
      [] v = "[1,{a}]" -> JArr(<< JNum("1"), JObj(<< <<"a", JNum("1")>> >>) >>)
      [] OTHER -> JNum("1")

FlagOf(f) ==
    CASE f = "true" -> JTrue
      [] f = "false" -> JFalse
      [] OTHER -> JStr(TextOf("flag"))

Opt(present, prop) == IF present THEN <<prop>> ELSE <<>>

TypeChars(t) ==
    CASE t = "text" -> <<"t", "e", "x", "t">>
      [] t = "button" -> <<"b", "u", "t", "t", "o", "n">>
      [] OTHER -> <<"v", "i", "e", "w">>

\* a layout node that is no object: a string of one expression, of the
\* shorthand, of two expressions or of words, or a number
ShapeOf(shape) ==
    CASE shape = "exp" -> JStr(TextOf("a"))
      [] shape = "shorthand" -> JStr(<<"$", ":", "a">>)
      [] shape = "two" -> JStr(TextOf("a b"))
      [] shape = "words" -> JStr(<<"h", "i">>)
      [] OTHER -> JNum("1")

\* the object layout node for options o with the children kids
MkObject(o, kids) ==
    JObj(Opt(o.type # "none", <<"type", JStr(TypeChars(o.type))>>)
         \o Opt(o.repeat # "none", <<"repeat", JStr(TextOf(o.repeat))>>)
         \o Opt(o.vars # "none", <<"vars", VarsOf(o.vars)>>)
         \o Opt(o.tap # "none", <<"on-tap", JStr(TextOf(o.tap))>>)
         \o Opt(o.text # "none", <<"text", JStr(TextOf(o.text))>>)
         \o Opt(o.foo # "none", <<"foo", JStr(TextOf(o.foo))>>)
         \o Opt(o.flag # "none" \/ o.label,
                <<"style", JObj(Opt(o.flag # "none", <<"is-accessibility-element", FlagOf(o.flag)>>)
                                \o Opt(o.label, <<"accessibility-label", JStr(<<"h", "i">>)>>))>>)
         \o Opt(kids # <<>>, <<"children", JArr(kids)>>))

\* the layout node for options o with the children kids
MkNode(o, kids) == IF o.shape = "object" THEN MkObject(o, kids) ELSE ShapeOf(o.shape)

\* the template for root options r and the layout value (absent when "none")
MkTemplate(r, layout) ==
    JObj(Opt(r.version # "none", <<"exp-version", JNum(r.version)>>)
         \o Opt(r.disable, <<"disable-accessibility-check", JTrue>>)
         \o Opt(layout.t # "none", <<"layout", layout>>))

Plain == [type |-> "text", repeat |-> "none", vars |-> "none", tap |-> "none",
          text |-> "none", foo |-> "none", flag |-> "none", label |-> FALSE, sub |-> "none",
          shape |-> "object"]

\* the children of a child: none, or one flagged view
SubKids(o) ==
    IF o.sub = "flagged"
    THEN <<MkNode([Plain EXCEPT !.type = "view", !.flag = "true", !.label = TRUE], <<>>)>>
    ELSE <<>>

PlainRoot == [version |-> "none", disable |-> FALSE]

\* the lists of at most n nodes of Kids
RECURSIVE KidLists(_, _)
KidLists(Kids, n) ==
    IF n = 0 THEN {<<>>}
    ELSE LET shorter == KidLists(Kids, n - 1)
         IN shorter \cup {Append(l, k) : l \in {x \in shorter : Len(x) = n - 1}, k \in Kids}

\* a text: a template with a layout, one without ("no-layout"), or a text
\* that parses to nothing ("empty"); NoText stands for null in a cache field
Text(kind, root, top, kids) == [kind |-> kind, root |-> root, top |-> top, kids |-> kids]

NoText == Text("null", PlainRoot, Plain, <<>>)

\* parseJson(this.document.getText()) for the text t
ParseText(t) ==
    CASE t.kind = "template" ->
           parseJson(MkTemplate(t.root,
               MkNode(t.top, [k \in 1..Len(t.kids) |-> MkNode(t.kids[k], SubKids(t.kids[k]))])))
      [] t.kind = "no-layout" -> parseJson(MkTemplate(t.root, JLit("none", "")))
      [] OTHER -> NoNode

\* the texts an editor session moves between: templates with a layout, a
\* template without one, a text that does not parse, and templates with
\* accessibility properties with the accessibility check on and off
EditTexts ==
    {Text("template", PlainRoot, [Plain EXCEPT !.vars = v, !.text = t], kids) :
        v \in {"none", "{a}"}, t \in {"none", "a"}, kids \in {<<>>, <<Plain>>}}
    \cup {Text("no-layout", [PlainRoot EXCEPT !.version = "2"], Plain, <<>>),
          Text("empty", PlainRoot, Plain, <<>>)}
    \cup {Text("template", [PlainRoot EXCEPT !.disable = d],
               [Plain EXCEPT !.type = "view", !.tap = "_event_", !.flag = f, !.text = t],
               kids) :
             d \in BOOLEAN, f \in {"none", "true", "exp"}, t \in {"none", "nope"},
             kids \in {<<>>, <<[Plain EXCEPT !.type = "view", !.flag = "true",
                                             !.label = TRUE]>>}}

\* the node of the MistNode tree at a path of child positions
RECURSIVE NodeAtPath(_, _)
NodeAtPath(tree, path) ==
    IF path = <<>> THEN tree
    ELSE NodeAtPath(getPropertyNode(tree, "children").items[Head(path)], Tail(path))


(***************************************************************************)
(* MistDocument.validate: the pass as steps.  ValidateStart is the call up *)
(* to validateNode(this.nodeTree); each call of validateNode is a frame    *)
(* [path, pc, i, pushed] that enters the node, validates its other         *)
(* properties one by one, runs the node checks, descends into the children *)
(* and leaves; ValidateFinish is the rest of the call.                     *)
(***************************************************************************)
\* the builtin variables without _width_
BUILTIN_VARS_NoWidth ==
    << TypedVariable("_height_", "Number"),
       TypedVariable("_mistitem_", "Any"), TypedVariable("_controller_", "Controller"),
       TypedVariable("_platform_", "iOS|Android"), TypedVariable("is_ios", "Boolean"),
       TypedVariable("is_android", "Boolean"), TypedVariable("system", "system"),
       TypedVariable("screen", "screen"), TypedVariable("app", "screen"),
       TypedVariable("env", "env") >>

BUILTIN_VARS ==
    << TypedVariable("_width_", "Number"), TypedVariable("_height_", "Number"),
       TypedVariable("_mistitem_", "Any"), TypedVariable("_controller_", "Controller"),
       TypedVariable("_platform_", "iOS|Android"), TypedVariable("is_ios", "Boolean"),
       TypedVariable("is_android", "Boolean"), TypedVariable("system", "system"),
       TypedVariable("screen", "screen"), TypedVariable("app", "screen"),
       TypedVariable("env", "env") >>

noExpProps == {"identifier", "async-display", "cell-height-animation", "reuse-identifier"}

\* key.startsWith('on-'), over the event keys of the schema
EventKeys == {"on-tap", "on-tap-once", "on-display"}

\* getEventParamsType(eventName)
getEventParamsType(eventName) == "event"

\* type.getTypeAtIndex(Type.Number): the element type of a collection type
getTypeAtIndex(type) ==
    CASE type = "Array<String>" -> "String"
      [] type = "Array<Number>" -> "Number"
      [] OTHER -> "Any"

\* Type.getTypeAtIndex(Type.Number) of the repeat type; repeatNode.value is a
\* JSON value, never an IType, so the repeat type is Type.Any
RepeatItemType(repeatNode) == getTypeAtIndex("Any")

ToNumber(token) ==
    CASE token = "0" -> 0 [] token = "1" -> 1 [] token = "2" -> 2 [] OTHER -> 3

\* the pass state during the walk of the node tree
St == [ctx |-> typeContext, vars |-> varList, diagnostics |-> diagnostics,
       lookups |-> lookups, types |-> valueTypes.tree]

RECURSIVE pushVariables(_, _)
pushVariables(st, vs) ==
    IF vs = <<>> THEN st ELSE pushVariables(pushVariable(st, Head(vs)), Tail(vs))

\* the property (key node and value node) of an object node, by key
PropertyOf(node, key) ==
    node.props[CHOOSE i \in 1..Len(node.props) :
                   node.props[i].key = key /\ \A j \in 1..(i - 1) : node.props[j].key # key]

HasProperty(node, key) == Present(getPropertyNode(node, key))

\* validateProperty(json.findNodeAtLocation(this.rootNode, [key]), templateSchema)
validateRootProperty(st, root, key) ==
    IF HasProperty(root, key) THEN validateProperty(st, PropertyOf(root, key), templateSchema)
    ELSE st

\* validate.assertNoExp(node)
assertNoExp(st, node) ==
    IF node.type = "string" /\ Len(findExpressionsInString(node)) > 0
    THEN [st EXCEPT !.diagnostics = Append(@, nodeRange(node, "no-expression", "Error"))]
    ELSE st

\* the loop over this.rootNode.children, from property k on
RECURSIVE validateRootOthers(_, _, _)
validateRootOthers(st, root, k) ==
    IF k > Len(root.props) THEN st
    ELSE LET c == root.props[k] IN
         IF c.key \in {"layout", "data", "state"}
         THEN validateRootOthers(st, root, k + 1)
         ELSE validateRootOthers(
                  validateProperty(IF c.key \in noExpProps THEN assertNoExp(st, c.value) ELSE st,
                                   c, templateSchema),
                  root, k + 1)

\* a pass that goes on with the context of the call before
FreshState_KeepContext(types) ==
    [ctx |-> typeContext, vars |-> <<>>, diagnostics |-> <<>>, lookups |-> <<>>,
     types |-> types]

\* the vars, typeContext and diagnostics a validate call starts with
\* (1324-1327), types being the valueType of the nodes of the root tree
FreshState(types) ==
    [ctx |-> NewContext, vars |-> <<>>, diagnostics |-> <<>>, lookups |-> <<>>,
     types |-> types]

\* validate from the BUILTIN_VARS loop up to hasAccessibilityDepth = 0
Seed(root, data, types) ==
    LET fresh == FreshState(types)
        dataVars == [k \in 1..Len(data) |-> TypedVariable(data[k].key, data[k].type)]
        inline == getPropertyNode(root, "data")
        st1 == pushVariables(fresh, BUILTIN_VARS)
        st2 == pushVariables(st1, dataVars)
        st3 == pushVariable(st2, TypedVariable("_data_", "Object"))
        st4 == validateRootProperty(st3, root, "data")
        kept == [k \in 1..Len(data) |->
                    IF inline.type = "object" /\ HasProperty(inline, data[k].key)
                    THEN Variable(data[k].key, "", getPropertyNode(inline, data[k].key),
                                  FALSE, 0, 0, FALSE)
                    ELSE dataVars[k]]
        added == IF inline.type = "object"
                 THEN SelectSeq(inline.props,
                                LAMBDA c : \A k \in 1..Len(data) : data[k].key # c.key)
                 ELSE <<>>
        st5 == pushVariables(st4, kept)
        st6 == pushVariables(st5, [k \in 1..Len(added) |->
                                      Variable(added[k].key, "", added[k].value,
                                               FALSE, 0, 0, FALSE)])
        st7 == pushVariable(st6, TypedVariable("_data_", "Object"))
        st8 == pushVariables(st7, <<TypedVariable("_item_", "Null"),
                                    TypedVariable("_index_", "Null")>>)
        st9 == validateRootProperty(st8, root, "state")
        st10 == pushVariable(st9, TypedVariable("state",
                    IF HasProperty(root, "state") THEN "Object" ELSE "Any"))
    IN validateRootOthers(st10, root, 1)

\* an accessibility check that no template switches off
accessibilityCheckEnabled_Always == TRUE

accessibilityCheckEnabled ==
    ~IsTrue(getPropertyNode(ParseText(template), "disable-accessibility-check"))

Frame(path) == [path |-> path, pc |-> "enter", i |-> 1, pushed |-> <<>>]

Top == frames[Len(frames)]

\* the node of the validateNode call on top
TopNode == NodeAtPath(getPropertyNode(ParseText(nodeTree), "layout"), Top.path)

ReplaceTop(f) == [frames EXCEPT ![Len(frames)] = f]

SetSt(st) ==
    /\ typeContext' = st.ctx
    /\ varList' = st.vars
    /\ diagnostics' = st.diagnostics
    /\ lookups' = st.lookups
    /\ valueTypes' = [valueTypes EXCEPT !.tree = st.types]

\* the pass state after the seeding, tree being the valueType of the nodes
\* of the node tree
SetSeeded(st, tree) ==
    /\ typeContext' = st.ctx
    /\ varList' = st.vars
    /\ diagnostics' = st.diagnostics
    /\ lookups' = st.lookups
    /\ valueTypes' = [root |-> st.types, tree |-> tree]

\* the valueType of the nodes after parseTemplate: the nodes of a new root
\* tree have none, the nodes of a node tree that stays keep theirs
TypesAfterParse(parsed) ==
    [root |-> <<>>,
     tree |-> IF Present(parsed) /\ HasProperty(parsed, "layout") THEN <<>>
              ELSE valueTypes.tree]

\* the text, the final state and the result of a completed validate call,
\* and the text and result of the completed call before it
Call(t, calls, ctx, looked, result, prior) ==
    [document |-> t, calls |-> calls, ctx |-> ctx, lookups |-> looked,
     returned |-> result, prior |-> prior]

NoPrior == [document |-> NoText, returned |-> <<>>]

NoCall == Call(NoText, 0, NewContext, <<>>, <<>>, NoPrior)

\* the call that now completes on the text, after the calls before
Completed(ctx, looked, result) ==
    Call(document,
         IF validated.document = document /\ validated.calls > 0
         THEN (IF validated.calls < MaxCalls THEN validated.calls + 1 ELSE MaxCalls)
         ELSE 1,
         ctx, looked, result,
         [document |-> validated.document, returned |-> validated.returned])

\* parseTemplate (1704-1715) when a cache field is null, parsed being
\* parseJson(this.document.getText())
parseTemplate(parsed) ==
    /\ rootNode' = IF Present(parsed) THEN document ELSE NoText
    /\ template' = IF Present(parsed) THEN document ELSE template
    /\ nodeTree' = IF Present(parsed) /\ HasProperty(parsed, "layout") THEN document
                   ELSE nodeTree

\* validate(), from its first line to the call validateNode(this.nodeTree)
ValidateStart ==
    /\ phase # "walking"
    /\ IF rootNode = NoText \/ template = NoText
       THEN parseTemplate(ParseText(document))
       ELSE UNCHANGED <<rootNode, template, nodeTree>>
    /\ IF template' = NoText
       THEN /\ phase' = "done"
            /\ returned' = <<>>
            /\ valueTypes' = TypesAfterParse(ParseText(document))
            /\ validated' = Completed(typeContext, lookups, <<>>)
            /\ UNCHANGED <<typeContext, varList, diagnostics, lookups,
                           hasAccessibilityDepth, frames>>
       ELSE /\ IF rootNode = NoText \/ template = NoText
               THEN SetSeeded(Seed(ParseText(rootNode'), fileData, <<>>),
                              TypesAfterParse(ParseText(document)).tree)
               ELSE SetSeeded(Seed(ParseText(rootNode'), fileData, valueTypes.root),
                              valueTypes.tree)
            /\ hasAccessibilityDepth' = 0
            /\ frames' = IF nodeTree' # NoText THEN <<Frame(<<>>)>> ELSE <<>>
            /\ phase' = "walking"
            /\ UNCHANGED <<returned, validated>>
    /\ probe' = NoProbe
    /\ UNCHANGED <<document, fileData, jstr, vars_env, vars_ws, outer, lastOp>>

\* the string form validateNode accepts for a node: one ${...} over the whole string
IsExpressionNode(node) ==
    LET expressions == findExpressionsInString(node) IN
    /\ Len(expressions) = 1
    /\ expressions[1].offset = 3
    /\ Len(expressions[1].string.source) = node.length - 5

\* a list of the repeat names in the order of their pushes
repeatPushed_InPushOrder == <<"_index_", "_item_">>

\* pushed.push('_item_', '_index_') (1580)
repeatPushed == <<"_item_", "_index_">>

\* the repeat part of validateNode (1570-1581) on r = [st, pushed]
pushRepeat(r, node, schema) ==
    IF HasProperty(node, "repeat")
    THEN [st |-> pushVariables(validateProperty(r.st, PropertyOf(node, "repeat"), schema),
                               <<TypedVariable("_index_", "Number"),
                                 TypedVariable("_item_",
                                               RepeatItemType(getPropertyNode(node, "repeat")))>>),
          pushed |-> r.pushed \o repeatPushed]
    ELSE r

\* the vars part of validateNode for an array, from element k on
RECURSIVE pushVarsArray(_, _, _)
pushVarsArray(r, items, k) ==
    IF k > Len(items) THEN r
    ELSE IF items[k].type # "object"
    THEN pushVarsArray([r EXCEPT !.st.diagnostics =
                           Append(@, nodeRange(items[k], "vars-element-must-be-object", "Error"))],
                       items, k + 1)
    ELSE pushVarsArray(pushVarsDictFrom(r.st, items[k], 1, r.pushed), items, k + 1)

\* the vars part of validateNode (1582-1599)
pushVars(r, varsNode) ==
    CASE varsNode.type = "array" -> pushVarsArray(r, varsNode.items, 1)
      [] varsNode.type = "object" -> pushVarsDictFrom(r.st, varsNode, 1, r.pushed)
      [] ~Present(varsNode) -> r
      [] OTHER -> [r EXCEPT !.st.diagnostics =
                      Append(@, nodeRange(varsNode, "vars-shape", "Error"))]

\* the check of the children key against the schema (1603-1607)
checkChildrenKey(r, node, schema) ==
    IF /\ HasProperty(node, "children")
       /\ "children" \notin DOMAIN schema.properties
       /\ schema.additionalProperties = "false"
    THEN [r EXCEPT !.st.diagnostics =
             Append(@, nodeRange(KeyNodeOf(node, "children"), "unknown-property", "Warning"))]
    ELSE r

\* validateNode of an object node up to the otherNodes loop: [st, pushed]
enterObject(st, node) ==
    checkChildrenKey(
        pushVars(pushRepeat([st |-> st, pushed |-> <<>>], node, NodeSchema(node)),
                 getPropertyNode(node, "vars")),
        node, NodeSchema(node))

otherNodes(node) ==
    SelectSeq(node.props, LAMBDA n : n.key \notin {"repeat", "vars", "children"})

\* MistNode.children: the elements of an array-valued children property
MistChildren(node) ==
    IF getPropertyNode(node, "children").type = "array"
    THEN getPropertyNode(node, "children").items ELSE <<>>

\* validateNode(node), from its first line to the otherNodes loop (1550-1608),
\* r being what the object branch makes of the pass state
EnterNodeAs(node, r) ==
    IF node.type = "string"
    THEN /\ IF IsExpressionNode(node)
            THEN SetSt(validate(St, node, <<>>))
            ELSE SetSt([St EXCEPT !.diagnostics =
                           Append(@, nodeRange(node, "node-must-be-object", "Error"))])
         /\ frames' = Front(frames)
    ELSE IF node.type # "object"
    THEN /\ SetSt([St EXCEPT !.diagnostics =
                      Append(@, nodeRange(node, "node-must-be-object", "Error"))])
         /\ frames' = Front(frames)
    ELSE /\ SetSt(r.st)
         /\ frames' = ReplaceTop([Top EXCEPT
                          !.pc = IF otherNodes(node) = <<>> THEN "checks" ELSE "props",
                          !.pushed = r.pushed])

EnterNode ==
    /\ phase = "walking" /\ frames # <<>> /\ Top.pc = "enter"
    /\ EnterNodeAs(TopNode, enterObject(St, TopNode))
    /\ UNCHANGED <<hasAccessibilityDepth, phase, returned, validated, vars_doc, vars_js,
                   vars_env, vars_ws, outer, lastOp>>

\* the body of the otherNodes loop for the property n
validateOther(st, n, schema) ==
    IF n.key \in EventKeys
    THEN pop(validateProperty(
                 pushVariable(st, TypedVariable("_event_", getEventParamsType(n.key))),
                 n, schema),
             "_event_")
    ELSE validateProperty(st, n, schema)

\* one round of the otherNodes loop of validateNode (1609-1623)
ValidateOtherPropertyOf(node, others) ==
    /\ SetSt(validateOther(St, others[Top.i], NodeSchema(node)))
    /\ frames' = ReplaceTop([Top EXCEPT
                     !.i = IF Top.i < Len(others) THEN Top.i + 1 ELSE 1,
                     !.pc = IF Top.i < Len(others) THEN "props" ELSE "checks"])

ValidateOtherProperty ==
    /\ phase = "walking" /\ frames # <<>> /\ Top.pc = "props"
    /\ ValidateOtherPropertyOf(TopNode, otherNodes(TopNode))
    /\ UNCHANGED <<hasAccessibilityDepth, phase, returned, validated, vars_doc, vars_js,
                   vars_env, vars_ws, outer, lastOp>>

A11yDiagnostic(node, message) == nodeRange(node, message, "Error")

\* the kinds of which only text is exempt from the label
exemptKinds_TextOnly == {"text"}

\* type !== 'text' && type !== 'button' (1656): the kinds that need no label
exemptKinds == {"text", "button"}

\* a label check that a flag of any value satisfies
labelRequiresFlag_AnyFlag(isA11yNode, a11yLabelNode) ==
    Present(a11yLabelNode) /\ ~Present(isA11yNode)

\* a11yLabelNode && (!isA11yNode || isA11yNode.value !== true) (1652)
labelRequiresFlag(isA11yNode, a11yLabelNode) ==
    Present(a11yLabelNode) /\ (~Present(isA11yNode) \/ ~IsTrue(isA11yNode))

\* a tap check that only the literal true satisfies
tapRequiresFlag_UnlessTrue(node, isA11yNode) ==
    HasProperty(node, "on-tap") /\ ~IsTrue(isA11yNode)

\* onTapNode && !isA11yNode (1667-1668)
tapRequiresFlag(node, isA11yNode) ==
    HasProperty(node, "on-tap") /\ ~Present(isA11yNode)

\* a return from validateNode that leaves the depth as it is
leaveDepth_NoDecrement(depth, flagged) == depth

\* the depth after the decrement at the end of validateNode (1677-1682)
leaveDepth(depth, flagged) == IF flagged THEN depth - 1 ELSE depth

\* the image check and the accessibility checks of validateNode (1626-1671)
\* on the node, its type and style and the two accessibility properties
NodeChecksOf(node, typeNode, styleNode, isA11yNode, a11yLabelNode, enabled) ==
    LET modeNode == getPropertyNode(styleNode, "content-mode")
        clip == /\ typeNode.type = "string" /\ typeNode.value = "image" /\ Present(styleNode)
                /\ ~HasProperty(styleNode, "clip")
                /\ modeNode.type = "string" /\ modeNode.value = "scale-aspect-fill"
        exempt == typeNode.type = "string" /\ typeNode.value \in exemptKinds
        d0 == IF clip THEN <<nodeRange(modeNode, "fill-mode-clip", "Warning")>> ELSE <<>>
        d1 == IF Present(isA11yNode) /\ ~IsTrue(isA11yNode) /\ ~IsFalse(isA11yNode)
              THEN <<A11yDiagnostic(isA11yNode, "a11y-literal-only")>> ELSE <<>>
        d2 == IF labelRequiresFlag(isA11yNode, a11yLabelNode)
              THEN <<A11yDiagnostic(IF Present(isA11yNode) THEN isA11yNode ELSE a11yLabelNode,
                                    "a11y-label-requires-flag")>>
              ELSE <<>>
        d3 == IF Present(isA11yNode) /\ IsTrue(isA11yNode) /\ ~Present(a11yLabelNode) /\ ~exempt
              THEN <<A11yDiagnostic(KeyNodeOf(styleNode, "is-accessibility-element"),
                                    "a11y-label-required")>>
              ELSE <<>>
        d4 == IF Present(isA11yNode) /\ IsTrue(isA11yNode) /\ hasAccessibilityDepth > 0
              THEN <<A11yDiagnostic(isA11yNode, "a11y-nested")>> ELSE <<>>
        d5 == IF tapRequiresFlag(node, isA11yNode)
              THEN <<A11yDiagnostic(KeyNodeOf(node, "on-tap"), "a11y-tap-requires-flag")>>
              ELSE <<>>
    IN /\ diagnostics' = diagnostics \o d0 \o
              (IF enabled THEN d1 \o d2 \o d3 \o d4 \o d5 ELSE <<>>)
       /\ hasAccessibilityDepth' =
              IF enabled /\ Present(isA11yNode) /\ IsTrue(isA11yNode)
              THEN hasAccessibilityDepth + 1 ELSE hasAccessibilityDepth
       /\ frames' = ReplaceTop([Top EXCEPT !.pc = "children", !.i = 1])

NodeChecksIn(node, styleNode, enabled) ==
    NodeChecksOf(node, getPropertyNode(node, "type"), styleNode,
                 getPropertyNode(styleNode, "is-accessibility-element"),
                 getPropertyNode(styleNode, "accessibility-label"), enabled)

NodeChecks ==
    /\ phase = "walking" /\ frames # <<>> /\ Top.pc = "checks"
    /\ NodeChecksIn(TopNode, getPropertyNode(TopNode, "style"), accessibilityCheckEnabled)
    /\ UNCHANGED <<typeContext, varList, lookups, phase, returned, vars_calls, vars_doc,
                   vars_js, vars_env, vars_ws, outer, lastOp>>

\* node.children.forEach(validateNode): the call for child i (1673-1675)
DescendChild ==
    /\ phase = "walking" /\ frames # <<>> /\ Top.pc = "children"
    /\ Top.i <= Len(MistChildren(TopNode))
    /\ frames' = Append(ReplaceTop([Top EXCEPT !.i = Top.i + 1]),
                        Frame(Append(Top.path, Top.i)))
    /\ UNCHANGED <<typeContext, varList, diagnostics, lookups, hasAccessibilityDepth,
                   phase, returned, vars_calls, vars_doc, vars_js, vars_env, vars_ws, outer, lastOp>>

\* the end of validateNode: the depth decrement and pushed.forEach(pop) (1677-1684)
LeaveNode ==
    /\ phase = "walking" /\ frames # <<>> /\ Top.pc = "children"
    /\ Top.i > Len(MistChildren(TopNode))
    /\ LET isA11yNode == getPropertyNode(getPropertyNode(TopNode, "style"),
                                         "is-accessibility-element")
       IN hasAccessibilityDepth' =
              leaveDepth(hasAccessibilityDepth,
                         accessibilityCheckEnabled /\ Present(isA11yNode)
                             /\ IsTrue(isA11yNode))
    /\ SetSt(popAll(St, Top.pushed))
    /\ frames' = Front(frames)
    /\ UNCHANGED <<phase, returned, validated, vars_doc, vars_js, vars_env, vars_ws, outer, lastOp>>

\* an exp-version check that always points at the layout key
expVersionDiagnostics_OnLayoutKey(root, layoutNode, expVersionNode) ==
    IF /\ Present(layoutNode)
       /\ \/ ~Present(expVersionNode)
          \/ expVersionNode.type = "number" /\ ToNumber(expVersionNode.value) < 2
          \/ expVersionNode.type \in {"boolean", "null"}
    THEN <<nodeRange(KeyNodeOf(root, "layout"), "exp-version", "Warning")>>
    ELSE <<>>

\* the exp-version check (1688-1694) on the root node with its layout and
\* exp-version properties
expVersionDiagnostics(root, layoutNode, expVersionNode) ==
    IF /\ Present(layoutNode)
       /\ \/ ~Present(expVersionNode)
          \/ expVersionNode.type = "number" /\ ToNumber(expVersionNode.value) < 2
          \/ expVersionNode.type \in {"boolean", "null"}
    THEN <<nodeRange(IF Present(expVersionNode) THEN expVersionNode
                     ELSE KeyNodeOf(root, "layout"),
                     "exp-version", "Warning")>>
    ELSE <<>>

\* validate() after validateNode(this.nodeTree): the exp-version check and the return
ValidateFinishWith(found) ==
    /\ diagnostics' = diagnostics \o found
    /\ returned' = diagnostics \o found

ValidateFinishOn(root) ==
    ValidateFinishWith(expVersionDiagnostics(root, getPropertyNode(root, "layout"),
                                             getPropertyNode(root, "exp-version")))

ValidateFinish ==
    /\ phase = "walking" /\ frames = <<>>
    /\ ValidateFinishOn(ParseText(rootNode))
    /\ phase' = "done"
    /\ validated' = Completed(typeContext, lookups, returned')
    /\ UNCHANGED <<typeContext, varList, lookups, hasAccessibilityDepth, frames, valueTypes,
                   vars_doc, vars_js, vars_env, vars_ws, outer, lastOp>>

(***************************************************************************)
(* MistDocument.contextAtLocation (1865-1979): the environment of a point  *)
(* query at a location of the layout, given by the path of the node, the   *)
(* key of the property of the node (path[0] after nodeAtPath) and the      *)
(* offset at.  It is a plain ExpressionContext; the model builds it in a   *)
(* pass state and reads its table.                                         *)
(***************************************************************************)
Contains(node, at) == node.offset <= at /\ at < node.offset + node.length

\* the paths of the nodes of the tree under the node
RECURSIVE PathsOf(_)
PathsOf(node) ==
    {<<>>} \cup UNION {{<<i>> \o q : q \in PathsOf(MistChildren(node)[i])} :
                       i \in 1..Len(MistChildren(node))}

\* the path of the innermost node of the layout that holds the offset
PathAt(layout, at) ==
    CHOOSE q \in PathsOf(layout) :
        /\ Contains(NodeAtPath(layout, q), at)
        /\ \A r \in PathsOf(layout) : Contains(NodeAtPath(layout, r), at) => Len(r) <= Len(q)

\* the key of the property of the node whose value holds the offset
KeyAt(node, at) == (CHOOSE pr \in Range(node.props) : Contains(pr.value, at)).key

\* contextAtLocation.pushVarsDict(node, isConst): no validate, every key
pushVarsDictAt(st, node) ==
    IF node.type # "object" THEN st
    ELSE pushVariables(st, [k \in 1..Len(node.props) |->
                               Variable(node.props[k].key, "", node.props[k].value, TRUE,
                                        node.props[k].keyOffset, node.props[k].keyLength, FALSE)])

RECURSIVE pushVarsDictsAt(_, _, _)
pushVarsDictsAt(st, items, count) ==
    IF count = 0 THEN st
    ELSE pushVarsDictAt(pushVarsDictsAt(st, items, count - 1), items[count])

\* a count that is the length of the array wherever the location is
ElementBefore_All(items, at) == Len(items)

\* path[1] of a location inside the vars array: the index of its element
ElementBefore(items, at) == Cardinality({i \in 1..Len(items) : items[i].offset + items[i].length <= at})

\* the repeat part of the loop over nodeStack for one node
pushRepeatAt(st, node) ==
    IF HasProperty(node, "repeat")
    THEN pushVariables(st, <<TypedVariable("_index_", "Number"),
                             TypedVariable("_item_",
                                           RepeatItemType(getPropertyNode(node, "repeat")))>>)
    ELSE st

\* the vars part of the loop over nodeStack for one node, inVars saying that
\* the node is the last one and the location lies in an element of its vars
pushVarsAt(st, varsNode, inVars, at) ==
    CASE varsNode.type = "array" ->
           pushVarsDictsAt(st, varsNode.items,
                           IF inVars THEN ElementBefore(varsNode.items, at)
                           ELSE Len(varsNode.items))
      [] varsNode.type = "object" -> pushVarsDictAt(st, varsNode)
      [] OTHER -> st

\* the loop over nodeStack, from the node at depth j of the path on
RECURSIVE pushNodeStack(_, _, _, _, _, _)
pushNodeStack(st, layout, path, j, key, at) ==
    IF j > Len(path) THEN st
    ELSE pushNodeStack(
             IF key = "repeat" /\ j = Len(path) THEN st
             ELSE pushVarsAt(pushRepeatAt(st, NodeAtPath(layout, SubSeq(path, 1, j))),
                             getPropertyNode(NodeAtPath(layout, SubSeq(path, 1, j)), "vars"),
                             j = Len(path) /\ key = "vars", at),
             layout, path, j + 1, key, at)

\* new Variable(key, value).setNode(c, data.file) for the k-th property c of
\* data.node: its node is in the data file, at the place of the property
DataVariable(d, k) == Variable(d.key, d.type, NoNode, TRUE, k, 1, TRUE)

\* the pushes before the loop: builtins, file data, inline data, state
SeedAt(root, data) ==
    pushVariable(
        pushVariable(
            pushVarsDictAt(
                pushVariable(
                    pushVariables(pushVariables(FreshState(<<>>), BUILTIN_VARS),
                                  [k \in 1..Len(data) |-> DataVariable(data[k], k)]),
                    TypedVariable("_data_", "Object")),
                getPropertyNode(root, "data")),
            TypedVariable("_data_", "Object")),
        TypedVariable("state", IF HasProperty(root, "state") THEN "Object" ELSE "Any"))

\* the pushes of contextAtLocation(location) for a location of the layout
contextStateAt(root, data, path, key, at) ==
    IF key \in EventKeys
    THEN pushVariable(pushNodeStack(SeedAt(root, data), getPropertyNode(root, "layout"),
                                    path, 0, key, at),
                      TypedVariable("_event_", getEventParamsType(key)))
    ELSE pushNodeStack(SeedAt(root, data), getPropertyNode(root, "layout"),
                       path, 0, key, at)

\* contextAtLocation(location).typeContext for a location of the layout
contextAtLocation(root, data, path, key, at) == contextStateAt(root, data, path, key, at).ctx

\* the Variables of the list at the positions of the set, in their order
RECURSIVE AtPositions(_, _, _)
AtPositions(vs, positions, i) ==
    IF i > Len(vs) THEN <<>>
    ELSE (IF i \in positions THEN <<vs[i]>> ELSE <<>>) \o AtPositions(vs, positions, i + 1)

\* a filter that keeps the first Variable of each name
unique_First(vs) ==
    AtPositions(vs, {i \in 1..Len(vs) : \A j \in 1..(i - 1) : vs[j].name # vs[i].name}, 1)

\* Variable.unique(vars) (56-59): v at i is kept when the first Variable of
\* its name in the reversed list is at length - i - 1, which is v
unique(vs) ==
    AtPositions(vs, {i \in 1..Len(vs) : \A j \in (i + 1)..Len(vs) : vs[j].name # vs[i].name}, 1)

\* contextAtLocation(location).vars
contextVarsAt(root, data, path, key, at) == unique(contextStateAt(root, data, path, key, at).vars)

\* null as the result of provideDefinition
NoTarget == [null |-> TRUE, inData |-> FALSE, offset |-> -1]

\* provideDefinition (1256-1277) once the expression is split into prefix
\* and name: the Location is in the data file when the Variable has a uri,
\* otherwise in the document, at the offset of its node
definitionTarget(vs, split) ==
    IF split.hasPrefix /\ split.prefix # <<>> THEN NoTarget
    ELSE IF ~split.hasFunction THEN NoTarget
    ELSE LET index == findLastIndex(vs, Join(split.function)) IN
         IF index > 0 /\ vs[index].hasNode
         THEN [null |-> FALSE, inData |-> vs[index].hasUri, offset |-> vs[index].keyOffset]
         ELSE NoTarget

\* provideDefinition for a position in the string node at the offset at of
\* the layout, expression being the text of the expression up to the end of
\* the word
provideDefinition(root, data, layout, at, expression) ==
    LET path == PathAt(layout, at) IN
    definitionTarget(contextVarsAt(root, data, path, KeyAt(NodeAtPath(layout, path), at), at),
                     getPrefix(getCurrentExpression(expression)))

\* single nodes that vary in the shape of vars and in what they read, under
\* each exp-version
ShapeTexts ==
    {Text("template", [PlainRoot EXCEPT !.version = e],
          [Plain EXCEPT !.vars = v, !.text = t, !.foo = f], <<>>) :
        e \in {"none", "1", "2"},
        v \in {"none", "{a}", "{a,b=a}", "{b=a,a}", "[{a},{b=a}]", "[{a},{a=a}]", "[1,{a}]", "1"},
        t \in {"none", "a", "nope", "_width_"},
        f \in {"none", "a"}}

\* nodes with children that vary in what they repeat, bind and read
ScopeKids ==
    {[Plain EXCEPT !.vars = v, !.text = t] : v \in {"none", "{a}"}, t \in {"_item_", "a"}}
    \cup {[Plain EXCEPT !.repeat = "items", !.text = t] : t \in {"_item_", "a"}}

ScopeTexts ==
    {Text("template", PlainRoot, [Plain EXCEPT !.repeat = r, !.vars = v, !.text = t], kids) :
        r \in {"none", "items"},
        v \in {"none", "{a}"},
        t \in {"none", "a", "_item_"},
        kids \in KidLists(ScopeKids, MaxChildren)}

\* nodes that vary in their accessibility properties, with the check on or off
A11yKid == [Plain EXCEPT !.type = "view", !.flag = "true", !.label = TRUE]

A11yTexts ==
    {Text("template", [PlainRoot EXCEPT !.disable = d],
          [Plain EXCEPT !.type = ty, !.flag = f, !.label = l, !.tap = tap], kids) :
        d \in BOOLEAN,
        ty \in {"text", "view"},
        f \in {"none", "true", "false", "exp"},
        l \in BOOLEAN,
        tap \in {"none", "_event_"},
        kids \in KidLists({A11yKid}, MaxChildren)}

\* trees of three levels that vary in which of their nodes are flagged
NestKids ==
    {[Plain EXCEPT !.type = "view", !.flag = f, !.label = (f = "true"), !.sub = s] :
        f \in {"none", "true"}, s \in {"none", "flagged"}}

NestTexts ==
    {Text("template", [PlainRoot EXCEPT !.disable = d],
          [Plain EXCEPT !.type = "view", !.flag = f, !.label = (f = "true")], kids) :
        d \in BOOLEAN,
        f \in {"none", "true"},
        kids \in KidLists(NestKids, MaxChildren)}

\* nodes that repeat over the array of strings of the data file
RepeatTexts ==
    {Text("template", [PlainRoot EXCEPT !.version = "2"],
          [Plain EXCEPT !.repeat = "items", !.text = t], kids) :
        t \in {"_item_", "_index_"},
        kids \in {<<>>, <<[Plain EXCEPT !.text = "_item_"]>>}}

RepeatData == <<[key |-> "items", type |-> "Array<String>"]>>

\* templates with and without a layout under each exp-version
VersionTexts ==
    {Text(k, [PlainRoot EXCEPT !.version = e], [Plain EXCEPT !.text = t], <<>>) :
        k \in {"template", "no-layout"}, e \in {"none", "0", "1", "2", "3"},
        t \in {"none", "nope"}}

\* layouts with nodes that are no objects among nodes that are, and with a
\* vars that is a number
NodeShapes == {"exp", "shorthand", "two", "words", "number"}

NodeShapeKids ==
    {[Plain EXCEPT !.shape = sh] : sh \in NodeShapes} \cup {[Plain EXCEPT !.text = "nope"]}

NodeShapeTexts ==
    {Text("template", PlainRoot, [Plain EXCEPT !.vars = v, !.text = "nope"], kids) :
        v \in {"none", "1"},
        kids \in KidLists(NodeShapeKids, MaxChildren) \ {<<>>}}
    \cup {Text("template", PlainRoot, [Plain EXCEPT !.shape = sh], <<>>) : sh \in NodeShapes}

\* nodes that read _event_ in and after an event handler, and in a child
EventTexts ==
    {Text("template", PlainRoot, [Plain EXCEPT !.tap = tap, !.text = t], kids) :
        tap \in {"none", "_event_"},
        t \in {"none", "_event_"},
        kids \in {<<>>, <<[Plain EXCEPT !.text = "_event_"]>>,
                  <<[Plain EXCEPT !.tap = "_event_"]>>}}

\* nodes that bind an array of vars, with and without a repeat and a child
VarsTexts ==
    {Text("template", PlainRoot, [Plain EXCEPT !.repeat = r, !.vars = v, !.text = t], kids) :
        r \in {"none", "items"},
        v \in {"[{a},{b=a}]", "[{a},{a=a}]"},
        t \in {"a", "b"},
        kids \in {<<>>, <<[Plain EXCEPT !.text = "b"]>>}}

\* flagged nodes of every kind, with and without a label and children
KindTexts ==
    {Text("template", [PlainRoot EXCEPT !.disable = d],
          [Plain EXCEPT !.type = ty, !.flag = "true", !.label = l], kids) :
        d \in BOOLEAN,
        ty \in {"none", "text", "button", "view"},
        l \in BOOLEAN,
        kids \in {<<>>, <<Plain>>}}

\* nodes with a property their schema does not declare (foo, or children
\* on a text node)
PropertyTexts ==
    {Text("template", PlainRoot, [Plain EXCEPT !.type = ty, !.vars = v, !.foo = f], kids) :
        ty \in {"text", "view"},
        v \in {"none", "{a}"},
        f \in {"none", "a", "nope"},
        kids \in {<<>>, <<Plain>>}}

\* nodes whose text holds an expression that does not lex or parse, alone or
\* beside another expression
SyntaxTexts ==
    {Text("template", PlainRoot, [Plain EXCEPT !.vars = v, !.text = t], kids) :
        v \in {"none", "{a}"},
        t \in {"a+", "'a", "a+ b", "a+ a", "b a+", "'a b"},
        kids \in {<<>>, <<[Plain EXCEPT !.text = "nope"]>>}}

\* what a schema may say of additional properties: false, true, or nothing
AdditionalProperties == {"false", "true", "absent"}

InitValidate ==
    /\ document \in ShapeTexts \cup ScopeTexts \cup A11yTexts \cup KindTexts \cup PropertyTexts
                   \cup SyntaxTexts \cup NestTexts \cup RepeatTexts \cup VarsTexts
                   \cup EventTexts \cup NodeShapeTexts \cup VersionTexts
    /\ additionalProperties \in IF document \in PropertyTexts THEN AdditionalProperties
                                ELSE {"false"}
    /\ valueTypes = NoTypes
    /\ documents = <<>>
    /\ dataMap = <<>>
    /\ disk = <<>>
    /\ validated = NoCall
    /\ fileData = IF document \in RepeatTexts THEN RepeatData ELSE <<>>
    /\ rootNode = NoText
    /\ template = NoText
    /\ nodeTree = NoText
    /\ typeContext = NewContext
    /\ varList = <<>>
    /\ diagnostics = <<>>
    /\ lookups = <<>>
    /\ hasAccessibilityDepth = 0
    /\ frames = <<>>
    /\ phase = "idle"
    /\ returned = <<>>
    /\ outer = <<>>
    /\ lastOp = [op |-> "none", key |-> "", expected |-> None, got |-> None]
    /\ jstr = [source |-> <<>>, parsed |-> <<>>, errors |-> <<>>, escapes |-> <<>>]
    /\ probe = [kind |-> "none", at |-> 0, to |-> 0, back |-> 0]

\* onDidChangeTextDocument (1699-1702) after the document took the text t
Change ==
    /\ phase # "walking"
    /\ \E t \in EditTexts : document' = t
    /\ template' = NoText
    /\ rootNode' = NoText
    /\ phase' = "idle"
    /\ validated' = [validated EXCEPT !.calls = 0, !.prior = NoPrior]
    /\ UNCHANGED <<fileData, nodeTree, typeContext, varList, diagnostics, lookups,
                   hasAccessibilityDepth, frames, returned, valueTypes, vars_js, vars_env, vars_ws,
                   outer, lastOp>>

\* the identifiers that a position of the layout can be on: those that the
\* last validate looked up in the strings of an object node of the layout
Words(layout) ==
    IF layout.type # "object" THEN {}
    ELSE {k \in DOMAIN lookups :
             /\ Contains(layout, lookups[k].at)
             /\ \E pr \in Range(NodeAtPath(layout, PathAt(layout, lookups[k].at)).props) :
                    Contains(pr.value, lookups[k].at)}

\* provideDefinition at the end of an identifier of an expression of the
\* layout; the request reads the document and changes none of it, so one
\* request after a pass reaches every answer
ProvideDefinition ==
    /\ phase = "done"
    /\ rootNode # NoText
    /\ probe = NoProbe
    /\ LET root == ParseText(rootNode)
           layout == getPropertyNode(root, "layout")
       IN \E k \in Words(layout) :
              probe' = [kind |-> "definition", at |-> lookups[k].at, name |-> lookups[k].name,
                        target |-> provideDefinition(root, fileData, layout,
                                                     lookups[k].at, lookups[k].upTo)]
    /\ UNCHANGED <<jstr, vars_ctx, vars_doc, vars_pass, vars_env, vars_ws, vars_calls>>

NextValidate ==
    \/ ProvideDefinition
    \/ ValidateStart
    \/ EnterNode
    \/ ValidateOtherProperty
    \/ NodeChecks
    \/ DescendChild
    \/ LeaveNode
    \/ ValidateFinish

SpecValidate == InitValidate /\ [][NextValidate]_vars

(***************************************************************************)
(* Specification of a document that is opened, edited and validated        *)
(***************************************************************************)
InitDocument ==
    /\ document \in EditTexts
    /\ additionalProperties = "false"
    /\ valueTypes = NoTypes
    /\ documents = <<>>
    /\ dataMap = <<>>
    /\ disk = <<>>
    /\ validated = NoCall
    /\ fileData = <<>>
    /\ rootNode = NoText
    /\ template = NoText
    /\ nodeTree = NoText
    /\ typeContext = NewContext
    /\ varList = <<>>
    /\ diagnostics = <<>>
    /\ lookups = <<>>
    /\ hasAccessibilityDepth = 0
    /\ frames = <<>>
    /\ phase = "idle"
    /\ returned = <<>>
    /\ outer = <<>>
    /\ lastOp = [op |-> "none", key |-> "", expected |-> None, got |-> None]
    /\ jstr = [source |-> <<>>, parsed |-> <<>>, errors |-> <<>>, escapes |-> <<>>]
    /\ probe = [kind |-> "none", at |-> 0, to |-> 0, back |-> 0]

NextDocument ==
    \/ Change
    \/ ValidateStart
    \/ EnterNode
    \/ ValidateOtherProperty
    \/ NodeChecks
    \/ DescendChild
    \/ LeaveNode
    \/ ValidateFinish

SpecDocument == InitDocument /\ [][NextDocument]_vars

(***************************************************************************)
(* The workspace: MistDocument.documents and the handlers of the editor's  *)
(* events (700-783), MistData.dataMap and the data files (241-417)         *)
(***************************************************************************)
\* a file name: path.dirname, path.basename without the extension, extension
File(dir, base, ext) == [dir |-> dir, base |-> base, ext |-> ext]

NoFile == File("", "", "")

MOCK_EXT == ".mock.json"

\* file.endsWith(".json")
EndsWithJson(file) == file.ext \in {".json", MOCK_EXT}

\* the documents of language mist that the editor opens and closes
MistFiles == {File("d1", "a", ".mist"), File("d2", "b", ".mist")}

\* the other documents it saves, and fs.readdirSync of each directory
DataFiles == {File("d1", "x", ".json"), File("d1", "a", MOCK_EXT), File("d2", "y", ".json")}

readdirSync(dir) ==
    CASE dir = "d1" -> <<File("d1", "a", MOCK_EXT), File("d1", "a", ".mist"),
                         File("d1", "x", ".json")>>
      [] dir = "d2" -> <<File("d2", "b", ".mist"), File("d2", "y", ".json")>>
      [] OTHER -> <<>>

\* the text of a file: "" ("empty"), a text that parses to nothing
\* ("blank"), or the serialisation of the value named
FileText(kind, body) == [kind |-> kind, body |-> body]

EmptyText == FileText("empty", "")
BlankText == FileText("blank", " ")

Entry(key, id, data) == JObj(<<<<key, id>>, <<"data", JNum(data)>>>>)

\* the value a text serialises
FileJson(body) ==
    CASE body = "{template:a}" -> Entry("template", JStr(<<"a">>), "1")
      [] body = "[{templateId:x@a},{blockId:a}]" ->
           JArr(<<Entry("templateId", JStr(<<"x", "@", "a">>), "1"),
                  Entry("blockId", JStr(<<"a">>), "2")>>)
      [] body = "{list:[{template:b}],data}" ->
           JObj(<<<<"list", JArr(<<Entry("template", JStr(<<"b">>), "1")>>)>>,
                  <<"data", JNum("0")>>>>)
      [] body = "{template:1}" -> Entry("template", JNum("1"), "2")
      [] body = "{template:b}" -> Entry("template", JStr(<<"b">>), "1")
      [] body = "{mockData,name}" ->
           JObj(<<<<"mockData", JNum("1")>>, <<"name", JStr(<<"n">>)>>>>)
      [] body = "[{mockData,template:b},{k},0]" ->
           JArr(<<JObj(<<<<"mockData", JNum("1")>>, <<"template", JStr(<<"b">>)>>>>),
                  JObj(<<<<"k", JNum("2")>>>>), JNum("0")>>)
      [] OTHER -> JLit("none", "")

\* parseJson(text) of a file text that is not ""
ParseFileText(text) == IF text.kind = "json" THEN parseJson(FileJson(text.body)) ELSE NoNode

Undefined == "<undefined>"

\* a MistData as openFile and openMockFile fill it in; index -1 is undefined
MistData(templateId, file, obj, node, name) ==
    [template |-> templateId, file |-> file, start |-> obj.offset,
     end |-> obj.offset + obj.length, node |-> node, name |-> name, index |-> -1]

\* templateId.replace(/^\w+@/, '') on the characters of a string node
WordChars == IdStartChars \cup DigitChars

StripPrefix(chars) ==
    IF \E i \in 2..Len(chars) :
           chars[i] = "@" /\ \A j \in 1..(i - 1) : chars[j] \in WordChars
    THEN LET i == CHOOSE i \in 2..Len(chars) :
                      chars[i] = "@" /\ \A j \in 1..(i - 1) : chars[j] \in WordChars
         IN Join(SubSeq(chars, i + 1, Len(chars)))
    ELSE Join(chars)

CharsOf(stringNode) == SubSeq(stringNode.raw, 2, Len(stringNode.raw) - 1)

templateKeys == <<"templateId", "template", "blockId">>

\* openFile.travelTree (268-300): the entries found in obj
RECURSIVE travelTree(_, _)
RECURSIVE travelTrees(_, _)
travelTree(obj, file) ==
    CASE ~Present(obj) -> <<>>
      [] obj.type = "array" -> travelTrees(obj.items, file)
      [] obj.type = "object" ->
           IF /\ Present(getPropertyNode(obj, "data"))
              /\ \E k \in 1..Len(templateKeys) : Present(getPropertyNode(obj, templateKeys[k]))
           THEN LET k == CHOOSE k \in 1..Len(templateKeys) :
                             /\ Present(getPropertyNode(obj, templateKeys[k]))
                             /\ \A j \in 1..(k - 1) :
                                    ~Present(getPropertyNode(obj, templateKeys[j]))
                    idNode == getPropertyNode(obj, templateKeys[k])
                IN IF idNode.type # "string" THEN <<>>
                   ELSE <<MistData(StripPrefix(CharsOf(idNode)), file, obj,
                                   getPropertyNode(obj, "data"), Undefined)>>
           ELSE travelTrees([i \in 1..Len(obj.props) |-> obj.props[i].value], file)
      [] OTHER -> <<>>

travelTrees(nodes, file) ==
    IF nodes = <<>> THEN <<>>
    ELSE travelTree(Head(nodes), file) \o travelTrees(Tail(nodes), file)

\* openMockFile.parseMockData (334-371): the entry of one element
parseMockData(obj, file) ==
    IF ~Present(obj) \/ obj.type # "object" THEN <<>>
    ELSE IF Present(getPropertyNode(obj, "mockData"))
    THEN LET nameNode == getPropertyNode(obj, "name")
             templateNode == getPropertyNode(obj, "template")
         IN IF Present(templateNode) /\ templateNode.type # "string" THEN <<>>
            ELSE <<MistData(IF Present(templateNode) THEN StripPrefix(CharsOf(templateNode))
                            ELSE StripPrefix(<<file.base>>),
                            file, obj, getPropertyNode(obj, "mockData"),
                            IF Present(nameNode) THEN nameNode.value ELSE Undefined)>>
    ELSE <<MistData(file.base, file, obj, obj, Undefined)>>

RECURSIVE parseMockDatas(_, _)
parseMockDatas(nodes, file) ==
    IF nodes = <<>> THEN <<>>
    ELSE parseMockData(Head(nodes), file) \o parseMockDatas(Tail(nodes), file)

\* null, in documents and in the datas of a document
Null == [null |-> TRUE]

Datas(list) == [null |-> FALSE, list |-> list]

\* new MistDocument(document) (753-755 and the field initialisers)
NewMistDocument(uri) ==
    [null |-> FALSE, document |-> uri, datas |-> Null, dataFile |-> NoFile, dataIndex |-> 0,
     rootNode |-> NoText, template |-> NoText, nodeTree |-> NoText]

\* MistDocument.getDocumentByUri(uri): undefined and null both read as Null
getDocumentByUri(docs, uri) == IF uri \in DOMAIN docs THEN docs[uri] ELSE Null

\* clearDatas
clearDatas(doc) == [doc EXCEPT !.datas = Null]

\* the workspace a handler works on: both statics, and whether it threw
Workspace(map, docs, thrown) == [dataMap |-> map, documents |-> docs, thrown |-> thrown]

\* if (!(dir in this.dataMap)) this.dataMap[dir] = {}
ensureDir(ws, dir) ==
    IF dir \in DOMAIN ws.dataMap THEN ws
    ELSE [ws EXCEPT !.dataMap = Put(ws.dataMap, dir, <<>>)]

\* dirDatas[file] = results on the files of a directory in insertion order
SetFile(dirDatas, file, results) ==
    IF \E i \in 1..Len(dirDatas) : dirDatas[i].file = file
    THEN [i \in 1..Len(dirDatas) |->
             IF dirDatas[i].file = file THEN [file |-> file, datas |-> results]
             ELSE dirDatas[i]]
    ELSE Append(dirDatas, [file |-> file, datas |-> results])

\* Object.keys(MistDocument.documents).forEach(... doc.clearDatas())
clearOpenDatas(docs) ==
    [k \in DOMAIN docs |-> IF docs[k].null THEN docs[k] ELSE clearDatas(docs[k])]

\* this.dataMap[dir][file] = results, then the clearing of every document
storeResults(ws, file, results) ==
    [ws EXCEPT !.dataMap = [@ EXCEPT ![file.dir] = SetFile(@, file, results)],
               !.documents = clearOpenDatas(@)]

\* MistData.openMockFile(file), text being fs.readFileSync(file).toString()
openMockFile(ws, file, text) ==
    IF text.kind = "empty" THEN ensureDir(ws, file.dir)
    ELSE IF ~Present(ParseFileText(text))
    THEN [ensureDir(ws, file.dir) EXCEPT !.thrown = TRUE]
    ELSE storeResults(ensureDir(ws, file.dir), file,
                      IF ParseFileText(text).type = "array"
                      THEN parseMockDatas(ParseFileText(text).items, file)
                      ELSE parseMockData(ParseFileText(text), file))

\* MistData.openFile(file)
openFile(ws, file, text) ==
    IF file.ext = MOCK_EXT THEN openMockFile(ws, file, text)
    ELSE IF text.kind = "empty" THEN ensureDir(ws, file.dir)
    ELSE storeResults(ensureDir(ws, file.dir), file,
                      travelTree(ParseFileText(text), file))

\* the loop of openDir over the .json files of the directory, which an
\* exception of openFile leaves
RECURSIVE openFiles(_, _, _)
openFiles(ws, files, fs) ==
    IF files = <<>> \/ ws.thrown THEN ws
    ELSE openFiles(IF EndsWithJson(Head(files)) THEN openFile(ws, Head(files), fs[Head(files)])
                   ELSE ws,
                   Tail(files), fs)

\* MistData.openDir(dir)
openDir(ws, dir, fs) ==
    IF dir \in DOMAIN ws.dataMap THEN ws
    ELSE openFiles([ws EXCEPT !.dataMap = Put(ws.dataMap, dir, <<>>)], readdirSync(dir), fs)

\* the entries of one file that getData finds for the template, with the
\* index it gives to each when there are several
foundIn(datas, templateId) ==
    LET found == SelectSeq(datas, LAMBDA d : d.template = templateId)
    IN IF Len(found) > 1 THEN [i \in 1..Len(found) |-> [found[i] EXCEPT !.index = i - 1]]
       ELSE found

RECURSIVE getDataFrom(_, _)
getDataFrom(dirDatas, templateId) ==
    IF dirDatas = <<>> THEN <<>>
    ELSE foundIn(Head(dirDatas).datas, templateId) \o getDataFrom(Tail(dirDatas), templateId)

\* MistData.getData(dir, template): the list it returns
getDataOf(map, dir, templateId) ==
    IF dir \in DOMAIN map THEN getDataFrom(map[dir], templateId) ELSE <<>>

\* the index getData leaves on the entries of the files of the directory
RECURSIVE IndexIn(_, _, _)
IndexIn(datas, templateId, i) ==
    IF datas = <<>> THEN <<>>
    ELSE IF Head(datas).template = templateId
    THEN <<[Head(datas) EXCEPT !.index = i]>> \o IndexIn(Tail(datas), templateId, i + 1)
    ELSE <<Head(datas)>> \o IndexIn(Tail(datas), templateId, i)

getDataMarks(map, dir, templateId) ==
    IF dir \notin DOMAIN map THEN map
    ELSE [map EXCEPT ![dir] =
             [i \in 1..Len(map[dir]) |->
                 IF Len(foundIn(map[dir][i].datas, templateId)) > 1
                 THEN [file |-> map[dir][i].file,
                       datas |-> IndexIn(map[dir][i].datas, templateId, 0)]
                 ELSE map[dir][i]]]

\* parseTemplate (1704-1715) on the fields of a document of the workspace
parseTemplateIn(doc, text) ==
    IF doc.rootNode = NoText \/ doc.template = NoText
    THEN [doc EXCEPT !.rootNode = IF Present(ParseText(text)) THEN text ELSE NoText,
                     !.template = IF Present(ParseText(text)) THEN text ELSE @,
                     !.nodeTree = IF Present(ParseText(text))
                                     /\ HasProperty(ParseText(text), "layout")
                                  THEN text ELSE @]
    ELSE doc

\* getDatas (775-783) and the choice of the data file in getData (796-808)
getDataIn(doc, map) ==
    LET datas == IF doc.datas.null
                 THEN Datas(getDataOf(map, doc.document.dir, doc.document.base))
                 ELSE doc.datas
    IN [doc EXCEPT !.datas = datas,
                   !.dataFile = IF datas.list # <<>> /\ @ = NoFile THEN datas.list[1].file
                                ELSE @]

\* getDatas (775-783) alone
getDatasIn(doc, map) ==
    IF doc.datas.null
    THEN [doc EXCEPT !.datas = Datas(getDataOf(map, doc.document.dir, doc.document.base))]
    ELSE doc

\* a setData that takes the entry it is given, in the list or not
setDataIn_AsGiven(doc, map, data) ==
    IF getDatasIn(doc, map).datas.list = <<>> THEN getDatasIn(doc, map)
    ELSE [getDatasIn(doc, map) EXCEPT !.dataFile = data.file,
                                      !.dataIndex = IF data.index = -1 THEN 0 ELSE data.index]

\* setData(data) (785-793); data.index || 0 is 0 for an undefined index
setDataIn(doc, map, data) ==
    LET list == getDatasIn(doc, map).datas.list
        chosen == IF \E i \in 1..Len(list) : list[i] = data THEN data ELSE list[1]
    IN IF list = <<>> THEN getDatasIn(doc, map)
       ELSE [getDatasIn(doc, map) EXCEPT !.dataFile = chosen.file,
                                         !.dataIndex = IF chosen.index = -1 THEN 0
                                                       ELSE chosen.index]

\* null as the result of getData
NoData == [null |-> TRUE, position |-> 0]

\* what getData returns (795-807) once getDatas and the choice of the data
\* file have acted on the document: an entry of the list by its position
getDataResult(doc) ==
    LET list == doc.datas.list
        filterdDatas == SelectSeq(list, LAMBDA d : d.file = doc.dataFile)
    IN IF list # <<>> /\ doc.dataIndex < Len(filterdDatas)
       THEN [null |-> FALSE,
             position |-> CHOOSE i \in 1..Len(list) :
                              /\ list[i].file = doc.dataFile
                              /\ Len(SelectSeq(SubSeq(list, 1, i),
                                                LAMBDA d : d.file = doc.dataFile))
                                     = doc.dataIndex + 1]
       ELSE NoData

\* the texts of the mist documents
MistText(uri) ==
    IF uri.dir = "d1" THEN Text("template", PlainRoot, Plain, <<>>)
    ELSE Text("no-layout", [PlainRoot EXCEPT !.version = "2"], Plain, <<>>)

\* the texts a data file and a mock file are saved with
JsonTexts ==
    {EmptyText, BlankText} \cup
    {FileText("json", b) : b \in {"{template:a}", "[{templateId:x@a},{blockId:a}]",
                                  "{list:[{template:b}],data}", "{template:1}"}}

MockTexts ==
    {EmptyText, BlankText} \cup
    {FileText("json", b) : b \in {"{mockData,name}", "[{mockData,template:b},{k},0]"}}

TextsOf(file) ==
    CASE file.ext = MOCK_EXT -> MockTexts
      [] file.dir = "d2" -> {FileText("json", "{template:b}")}
      [] OTHER -> JsonTexts

\* a close that forgets every document
closeEntry_All(docs, uri) == [k \in DOMAIN docs |-> Null]

\* documents[uri] = null

closeEntry(docs, uri) == Put(docs, uri, Null)

IsOpen(uri) == ~getDocumentByUri(documents, uri).null

SetWorkspace(ws) ==
    /\ documents' = ws.documents
    /\ dataMap' = ws.dataMap

\* MistDocument.onDidOpenTextDocument(document) for a document of language mist
onDidOpenTextDocument(uri) ==
    /\ ~IsOpen(uri)
    /\ SetWorkspace(openDir(Workspace(dataMap, Put(documents, uri, NewMistDocument(uri)),
                                      FALSE),
                            uri.dir, disk))
    /\ UNCHANGED <<disk, vars_js, vars_ctx, vars_doc, vars_pass, vars_env, vars_calls>>

\* MistDocument.onDidCloseTextDocument(document) for a document of language mist
onDidCloseTextDocument(uri) ==
    /\ IsOpen(uri)
    /\ documents' = closeEntry(documents, uri)
    /\ UNCHANGED <<dataMap, disk, vars_js, vars_ctx, vars_doc, vars_pass, vars_env, vars_calls>>

\* MistDocument.onDidSaveTextDocument(document) after the editor has written
\* the text to the file; a document of language mist takes the empty branch
onDidSaveTextDocument(file, text) ==
    /\ IF file.ext = ".mist" \/ ~EndsWithJson(file)
       THEN UNCHANGED <<documents, dataMap, disk>>
       ELSE /\ disk' = [disk EXCEPT ![file] = text]
            /\ SetWorkspace(openFile(Workspace(dataMap, documents, FALSE), file, text))
    /\ UNCHANGED <<vars_js, vars_ctx, vars_doc, vars_pass, vars_env, vars_calls>>

\* document.getData() of an open document
getData(uri) ==
    /\ IsOpen(uri)
    /\ documents' = [documents EXCEPT ![uri] = getDataIn(@, dataMap)]
    /\ dataMap' = IF documents[uri].datas.null
                  THEN getDataMarks(dataMap, uri.dir, uri.base)
                  ELSE dataMap
    /\ UNCHANGED <<disk, vars_js, vars_ctx, vars_doc, vars_pass, vars_env, vars_calls>>

\* an entry that is in no list
ForeignData == MistData("z", File("d9", "z", ".json"), [offset |-> 0, length |-> 0], NoNode,
                        Undefined)

\* document.setData(data) of an open document, data an entry of its list
\* or one that is not in it
setData(uri, data) ==
    /\ IsOpen(uri)
    /\ documents' = [documents EXCEPT ![uri] = setDataIn(@, dataMap, data)]
    /\ dataMap' = IF documents[uri].datas.null
                  THEN getDataMarks(dataMap, uri.dir, uri.base)
                  ELSE dataMap
    /\ UNCHANGED <<disk, vars_js, vars_ctx, vars_doc, vars_pass, vars_env, vars_calls>>

\* document.getTemplate() of an open document
getTemplate(uri) ==
    /\ IsOpen(uri)
    /\ documents' = [documents EXCEPT ![uri] = parseTemplateIn(@, MistText(uri))]
    /\ UNCHANGED <<dataMap, disk, vars_js, vars_ctx, vars_doc, vars_pass, vars_env, vars_calls>>

\* the TypeError of a call on undefined or null, as the probe keeps it
TypeError == [kind |-> "TypeError", at |-> 0, to |-> 0, back |-> 0]

\* the instance's onDidChangeTextDocument (1699-1702) on the fields of a
\* document of the workspace
changeIn(doc) == [doc EXCEPT !.template = NoText, !.rootNode = NoText]

\* MistDocument.onDidChangeTextDocument(event) (746-751) for a document of
\* language mist: the call on the result of getDocumentByUri throws when
\* there is no document
onDidChangeTextDocument(uri) ==
    /\ IF getDocumentByUri(documents, uri).null
       THEN /\ probe' = TypeError
            /\ UNCHANGED <<jstr, documents>>
       ELSE /\ documents' = [documents EXCEPT ![uri] = changeIn(@)]
            /\ UNCHANGED vars_js
    /\ UNCHANGED <<dataMap, disk, vars_ctx, vars_doc, vars_pass, vars_env, vars_calls>>

Open == \E uri \in MistFiles : onDidOpenTextDocument(uri)

ChangeText == \E uri \in MistFiles : onDidChangeTextDocument(uri)

Close == \E uri \in MistFiles : onDidCloseTextDocument(uri)

Save ==
    \E file \in DataFiles \cup MistFiles :
        \E text \in IF file \in DataFiles THEN TextsOf(file) ELSE {EmptyText} :
            onDidSaveTextDocument(file, text)

GetData == \E uri \in MistFiles : getData(uri)

SetData ==
    \E uri \in MistFiles :
        \E data \in {getDataOf(dataMap, uri.dir, uri.base)[i] :
                         i \in 1..Len(getDataOf(dataMap, uri.dir, uri.base))}
                    \cup {ForeignData} :
            setData(uri, data)

GetTemplate == \E uri \in MistFiles : getTemplate(uri)

InitWorkspace ==
    /\ documents = <<>>
    /\ dataMap = <<>>
    /\ disk \in {d \in [DataFiles -> UNION {TextsOf(f) : f \in DataFiles}] :
                     \A f \in DataFiles : d[f] \in TextsOf(f)}
    /\ document = NoText
    /\ additionalProperties = "false"
    /\ valueTypes = NoTypes
    /\ validated = NoCall
    /\ fileData = <<>>
    /\ rootNode = NoText
    /\ template = NoText
    /\ nodeTree = NoText
    /\ typeContext = NewContext
    /\ varList = <<>>
    /\ diagnostics = <<>>
    /\ lookups = <<>>
    /\ hasAccessibilityDepth = 0
    /\ frames = <<>>
    /\ phase = "idle"
    /\ returned = <<>>
    /\ outer = <<>>
    /\ lastOp = [op |-> "none", key |-> "", expected |-> None, got |-> None]
    /\ jstr = [source |-> <<>>, parsed |-> <<>>, errors |-> <<>>, escapes |-> <<>>]
    /\ probe = [kind |-> "none", at |-> 0, to |-> 0, back |-> 0]

NextWorkspace ==
    \/ Open
    \/ Close
    \/ Save
    \/ GetData
    \/ SetData
    \/ GetTemplate
    \/ ChangeText

SpecWorkspace == InitWorkspace /\ [][NextWorkspace]_vars

(***************************************************************************)
(* Specification of the context alone: any balanced use of push, pop, get. *)
(***************************************************************************)
MaxDepth == 2
MaxPushes == 3

CtxNames == {"a", "b"}
CtxValues == {"Number", "String"}

NoOp == [op |-> "none", key |-> "", expected |-> None, got |-> None]

InitContext ==
    /\ typeContext = NewContext
    /\ outer = [k \in CtxNames |-> <<>>]
    /\ lastOp = NoOp
    /\ jstr = [source |-> <<>>, parsed |-> <<>>, errors |-> <<>>, escapes |-> <<>>]
    /\ probe = [kind |-> "none", at |-> 0, to |-> 0, back |-> 0]
    /\ document = NoText /\ fileData = <<>> /\ rootNode = NoText
    /\ template = NoText /\ nodeTree = NoText
    /\ varList = <<>> /\ diagnostics = <<>> /\ lookups = <<>>
    /\ hasAccessibilityDepth = 0 /\ frames = <<>> /\ phase = "idle" /\ returned = <<>>
    /\ additionalProperties = "false"
    /\ valueTypes = NoTypes
    /\ documents = <<>>
    /\ dataMap = <<>>
    /\ disk = <<>>
    /\ validated = NoCall

Push ==
    \E k \in CtxNames, v \in CtxValues :
        /\ Len(outer[k]) < MaxDepth
        /\ Len(StackOf(typeContext.table, k)) < MaxPushes
        /\ typeContext' = TrackPush(typeContext, k, v)
        /\ outer' = [outer EXCEPT ![k] = Append(@, BaseGet(typeContext.table, k))]
        /\ lastOp' = [op |-> "push", key |-> k, expected |-> v,
                      got |-> BaseGet(typeContext'.table, k)]
        /\ UNCHANGED <<vars_js, vars_doc, vars_pass, vars_env, vars_ws, vars_calls>>

Pop ==
    \E k \in CtxNames :
        /\ Len(outer[k]) > 0
        /\ typeContext' = TrackPop(typeContext, k)
        /\ outer' = [outer EXCEPT ![k] = Front(@)]
        /\ lastOp' = [op |-> "pop", key |-> k, expected |-> Last(outer[k]),
                      got |-> BaseGet(typeContext'.table, k)]
        /\ UNCHANGED <<vars_js, vars_doc, vars_pass, vars_env, vars_ws, vars_calls>>

Get ==
    \E k \in CtxNames :
        /\ typeContext' = TrackGet(typeContext, k)
        /\ lastOp' = [op |-> "get", key |-> k, expected |-> BaseGet(typeContext.table, k),
                      got |-> BaseGet(typeContext'.table, k)]
        /\ UNCHANGED <<outer, vars_js, vars_doc, vars_pass, vars_env, vars_ws, vars_calls>>

\* the same-scope check of validate (1423-1437) for an expression that reads
\* id: a new tracking context with the scope variables, checked and asked
\* whether id was read
SameScopeCheck ==
    \E id \in CtxNames, scopeVars \in {<<"a">>, <<"b">>, <<"a", "b">>} :
        /\ lastOp' = [op |-> "scope", key |-> id, expected |-> None,
                      got |-> IF /\ id \in Range(scopeVars)
                                 /\ isAccessed(TrackGet(PushAllTrue(NewContext, scopeVars), id), id)
                              THEN "same-scope" ELSE None]
        /\ UNCHANGED <<typeContext, outer, vars_js, vars_doc, vars_pass, vars_env, vars_ws,
                       vars_calls>>

\* a get on the context of a point query (1870): a new ExpressionContext
\* with its own pushes
PointQuery ==
    \E k \in CtxNames, name \in CtxNames, v \in CtxValues :
        /\ lastOp' = [op |-> "query", key |-> k, expected |-> None,
                      got |-> BaseGet(BasePush(NewContext.table, name, v), k)]
        /\ UNCHANGED <<typeContext, outer, vars_js, vars_doc, vars_pass, vars_env, vars_ws,
                       vars_calls>>

NextContext == Push \/ Pop \/ Get \/ SameScopeCheck \/ PointQuery

(***************************************************************************)
(* Specification of JsonString: a source string is drawn from sequences of *)
(* segments (plain characters and escapes), then indices are translated.   *)
(***************************************************************************)
MaxSegments == 3

Segments ==
    { <<"a">>, <<"$">>,
      <<BS, "n">>, <<BS, BS>>, <<BS, QUOTE>>,
      <<BS, "u", "0", "0", "4", "1">>,
      <<BS, "x">>, <<BS, "u", "0", "1">>, <<BS>> }

SegmentSeqs == UNION { [1..n -> Segments] : n \in 0..MaxSegments }

InitJsonString ==
    /\ \E ss \in SegmentSeqs : jstr = JsonString(Flatten(ss))
    /\ probe = NoProbe
    /\ typeContext = NewContext
    /\ outer = <<>>
    /\ lastOp = NoOp
    /\ document = NoText /\ fileData = <<>> /\ rootNode = NoText
    /\ template = NoText /\ nodeTree = NoText
    /\ varList = <<>> /\ diagnostics = <<>> /\ lookups = <<>>
    /\ hasAccessibilityDepth = 0 /\ frames = <<>> /\ phase = "idle" /\ returned = <<>>
    /\ additionalProperties = "false"
    /\ valueTypes = NoTypes
    /\ documents = <<>>
    /\ dataMap = <<>>
    /\ disk = <<>>
    /\ validated = NoCall

\* ask parsedIndex(j) for a source index, then translate the answer back
ProbeSourceIndex ==
    \E j \in 0..Len(jstr.source) :
        /\ probe' = [kind |-> "source", at |-> j, to |-> parsedIndex(jstr, j),
                     back |-> sourceIndex(jstr, parsedIndex(jstr, j))]
        /\ UNCHANGED <<jstr, vars_ctx, vars_doc, vars_pass, vars_env, vars_ws, vars_calls>>

\* ask sourceIndex(i) for a parsed index, then translate the answer back
ProbeParsedIndex ==
    \E i \in 0..Len(jstr.parsed) :
        /\ probe' = [kind |-> "parsed", at |-> i, to |-> sourceIndex(jstr, i),
                     back |-> parsedIndex(jstr, sourceIndex(jstr, i))]
        /\ UNCHANGED <<jstr, vars_ctx, vars_doc, vars_pass, vars_env, vars_ws, vars_calls>>

NextJsonString == ProbeSourceIndex \/ ProbeParsedIndex

SpecJsonString == InitJsonString /\ [][NextJsonString]_vars

(***************************************************************************)
(* Specification of the two functions of strings: a string is drawn from   *)
(* sequences of pieces, then its expressions are found and its current     *)
(* expression is taken.                                                    *)
(***************************************************************************)
MaxPieces == 5
MaxChars == 4

\* the pieces of the strings that hold expressions
Pieces == {<<"$", "{">>, <<"}">>, <<"$", ":">>, <<"a">>, <<"$">>, <<"{">>}

\* the characters of the expressions under completion
ExpChars == {"a", "b", "+", ",", "(", ")", "[", "]", "'", " "}

\* a + max(a, b.c
MaxExample == <<"a", " ", "+", " ", "m", "a", "x", "(", "a", ",", " ", "b", ".", "c">>

\* the pieces of the calls under completion and hover
CallPieces == {<<"a", ".", "f", "(">>, <<"(">>, <<"b">>, <<",">>, <<"'">>, <<")">>, <<"]">>,
               <<" ">>}

\* (1, xx(2, 3), 3)
ParamsExample == <<"(", "1", ",", " ", "x", "x", "(", "2", ",", " ", "3", ")", ",", " ",
                   "3", ")">>

ExpressionStrings ==
    {Flatten(ss) : ss \in UNION {[1..n -> Pieces] : n \in 0..MaxPieces}}
    \cup UNION {[1..n -> ExpChars] : n \in 0..MaxChars}
    \cup {Flatten(ss) : ss \in UNION {[1..n -> CallPieces] : n \in 0..MaxPieces}}
    \cup {MaxExample, ParamsExample}

\* the string node of the document for the content chars
StringNode(chars) == Place(JStr(chars), 0)

InitExpression ==
    /\ \E chars \in ExpressionStrings :
           jstr = [source |-> chars, parsed |-> <<>>, errors |-> <<>>, escapes |-> <<>>]
    /\ probe = NoProbe
    /\ typeContext = NewContext
    /\ outer = <<>>
    /\ lastOp = NoOp
    /\ document = NoText /\ fileData = <<>> /\ rootNode = NoText
    /\ template = NoText /\ nodeTree = NoText
    /\ varList = <<>> /\ diagnostics = <<>> /\ lookups = <<>>
    /\ hasAccessibilityDepth = 0 /\ frames = <<>> /\ phase = "idle" /\ returned = <<>>
    /\ additionalProperties = "false"
    /\ valueTypes = NoTypes
    /\ documents = <<>>
    /\ dataMap = <<>>
    /\ disk = <<>>
    /\ validated = NoCall

\* findExpressionsInString on the string node of the content
FindExpressions ==
    /\ probe' = [kind |-> "find",
                 found |-> [k \in 1..Len(findExpressionsInString(StringNode(jstr.source))) |->
                     [source |-> findExpressionsInString(StringNode(jstr.source))[k].string.source,
                      offset |-> findExpressionsInString(StringNode(jstr.source))[k].offset]]]
    /\ UNCHANGED <<jstr, vars_ctx, vars_doc, vars_pass, vars_env, vars_ws, vars_calls>>

\* getCurrentExpression on the content
CurrentExpression ==
    /\ probe' = [kind |-> "current", result |-> getCurrentExpression(jstr.source)]
    /\ UNCHANGED <<jstr, vars_ctx, vars_doc, vars_pass, vars_env, vars_ws, vars_calls>>

\* getSignatureInfo on the content
SignatureInfo ==
    /\ probe' = [kind |-> "signature", info |-> getSignatureInfo(jstr.source)]
    /\ UNCHANGED <<jstr, vars_ctx, vars_doc, vars_pass, vars_env, vars_ws, vars_calls>>

\* getFunctionParamsCount on the content
FunctionParamsCount ==
    /\ probe' = [kind |-> "params", count |-> getFunctionParamsCount(jstr.source)]
    /\ UNCHANGED <<jstr, vars_ctx, vars_doc, vars_pass, vars_env, vars_ws, vars_calls>>

\* the Variables of a context that binds a, b and f in the document
WordVars ==
    <<Variable("a", "Any", NoNode, TRUE, 10, 3, FALSE),
      Variable("b", "Any", NoNode, TRUE, 20, 3, FALSE),
      Variable("f", "Any", NoNode, TRUE, 30, 3, FALSE)>>

\* provideDefinition with the content as the expression up to the end of
\* the word, in a context that binds a, b and f
DefinitionOfWord ==
    /\ probe' = [kind |-> "word",
                 target |-> definitionTarget(WordVars,
                                             getPrefix(getCurrentExpression(jstr.source)))]
    /\ UNCHANGED <<jstr, vars_ctx, vars_doc, vars_pass, vars_env, vars_ws, vars_calls>>

NextExpression ==
    \/ FindExpressions
    \/ CurrentExpression
    \/ SignatureInfo
    \/ FunctionParamsCount
    \/ DefinitionOfWord

SpecExpression == InitExpression /\ [][NextExpression]_vars

\* a source index that lies strictly inside an escape span
StrictlyInsideEscape(js, j) ==
    \E k \in 1..Len(js.escapes) :
        js.escapes[k].sourceIndex < j /\ j < js.escapes[k].sourceEnd

\* C7: for a source whose escapes are all valid, translating a parsed index
\* to the source and back gives the index again, and translating a source
\* index that is not strictly inside an escape span to the parsed string and
\* back gives the index again.
C7_RoundTrip ==
    jstr.errors = <<>> =>
        /\ probe.kind = "parsed" => probe.back = probe.at
        /\ (probe.kind = "source" /\ ~StrictlyInsideEscape(jstr, probe.at))
              => probe.back = probe.at

\* a source index behind two adjacent escapes and one separated \uXXXX escape
C7_Witness ==
    /\ jstr.errors = <<>>
    /\ Len(jstr.escapes) = 2
    /\ \E k \in 1..2 : jstr.escapes[k].sourceEnd - jstr.escapes[k].sourceIndex = 6
    /\ probe.kind = "source"
    /\ probe.at >= jstr.escapes[2].sourceEnd
    /\ probe.to < probe.at
    /\ probe.back = probe.at

\* C33: the escape spans of every source string are sorted by sourceIndex
\* and by parsedIndex and do not overlap: each span has sourceIndex <
\* sourceEnd <= source.length and ends at or before the start of the next.
C33_SpansOrdered ==
    /\ \A k \in 1..Len(jstr.escapes) :
           /\ 0 <= jstr.escapes[k].sourceIndex
           /\ jstr.escapes[k].sourceIndex < jstr.escapes[k].sourceEnd
           /\ jstr.escapes[k].sourceEnd <= Len(jstr.source)
    /\ \A k \in 1..(Len(jstr.escapes) - 1) :
           /\ jstr.escapes[k].sourceEnd <= jstr.escapes[k + 1].sourceIndex
           /\ jstr.escapes[k].sourceIndex < jstr.escapes[k + 1].sourceIndex
           /\ jstr.escapes[k].parsedIndex <= jstr.escapes[k + 1].parsedIndex

\* a source that ends in a short unicode escape behind two other spans,
\* one of them producing no character, with an index translated in it
C33_Witness ==
    /\ Len(jstr.escapes) = 3
    /\ jstr.escapes[3].sourceEnd = Len(jstr.source)
    /\ jstr.escapes[3].sourceEnd - jstr.escapes[3].sourceIndex = 4
    /\ \E k \in 1..2 : jstr.escapes[k].parsedIndex = jstr.escapes[k + 1].parsedIndex
    /\ \E k \in 1..2 : jstr.escapes[k].sourceEnd = jstr.escapes[k + 1].sourceIndex
    /\ probe.kind = "source"

\* a source that ends in a backslash, which opens no span
C33_WitnessBackslash ==
    /\ jstr.source # <<>>
    /\ jstr.source[Len(jstr.source)] = BS
    /\ Len(jstr.escapes) = 2
    /\ jstr.escapes[2].sourceEnd < Len(jstr.source)

\* the span that a source index lies strictly inside
EnclosingSpan(js, j) ==
    CHOOSE k \in 1..Len(js.escapes) :
        js.escapes[k].sourceIndex < j /\ j < js.escapes[k].sourceEnd

\* C34: for a source index strictly inside an escape span, parsedIndex
\* returns the parsed index of the character that this span produces,
\* whichever span of the string it is, and its result lies in
\* 0..parsed.length.
C34_InsideSpan ==
    (probe.kind = "source" /\ StrictlyInsideEscape(jstr, probe.at)) =>
        /\ probe.to = jstr.escapes[EnclosingSpan(jstr, probe.at)].parsedIndex
        /\ probe.to \in 0..Len(jstr.parsed)

\* the second half alone, for the sources whose escapes are all valid
C34_InRange ==
    (probe.kind = "source" /\ StrictlyInsideEscape(jstr, probe.at) /\ jstr.errors = <<>>)
        => probe.to \in 0..Len(jstr.parsed)

\* what holds of the code: the claim for the last span of the string and
\* for a span of two characters that the next span follows at once
C34_InsideLastSpan ==
    (probe.kind = "source" /\ StrictlyInsideEscape(jstr, probe.at)) =>
        LET k == EnclosingSpan(jstr, probe.at) IN
        (\/ k = Len(jstr.escapes)
         \/ /\ jstr.errors = <<>>
            /\ jstr.escapes[k].sourceEnd - jstr.escapes[k].sourceIndex = 2
            /\ jstr.escapes[k + 1].sourceIndex = jstr.escapes[k].sourceEnd)
            => /\ probe.to = jstr.escapes[k].parsedIndex
               /\ probe.to \in 0..Len(jstr.parsed)

(***************************************************************************)
(* Claims about the context                                                *)
(***************************************************************************)
SpecContext == InitContext /\ [][NextContext]_vars

\* C1: on the access-tracking context, after push(k, v) followed by pop(k)
\* a lookup of k gives the binding that was innermost before the push (or
\* no binding when there was none).
C1_PushPopRestores ==
    lastOp.op = "pop" => lastOp.got = lastOp.expected

\* what does hold of the code: a push shadows, and a get changes no binding
C1_PushShadows ==
    lastOp.op \in {"push", "get"} => lastOp.got = lastOp.expected

\* the read flags of every name but key are what they were
OthersKept(key) ==
    \A n \in (DOMAIN typeContext.accessed \cup DOMAIN typeContext'.accessed) \ {key} :
        StackOf(typeContext'.accessed, n) = StackOf(typeContext.accessed, n)

\* the read flags of the entries of key but the innermost are what they were
ShadowedKept(key) ==
    /\ Len(StackOf(typeContext'.accessed, key)) = Len(StackOf(typeContext.accessed, key))
    /\ \A i \in 1..(Len(StackOf(typeContext.accessed, key)) - 1) :
           typeContext'.accessed[key][i] = typeContext.accessed[key][i]

\* C27: read tracking is per binding and isolated: get(k) on the tracking
\* context sets the read flag of the innermost entry of k only, shadowed
\* entries and other names keeping theirs; push(k, v) adds an unread entry;
\* the reads of the same-scope check, made in its own context, and of a
\* point query, made in a context without tracking, change no flag.
C27_ReadTracking ==
    [][/\ lastOp'.op = "get" =>
            /\ OthersKept(lastOp'.key)
            /\ ShadowedKept(lastOp'.key)
            /\ StackOf(typeContext.accessed, lastOp'.key) # <<>> =>
                   Last(typeContext'.accessed[lastOp'.key])
       /\ lastOp'.op = "push" =>
            /\ OthersKept(lastOp'.key)
            /\ Front(typeContext'.accessed[lastOp'.key])
                   = StackOf(typeContext.accessed, lastOp'.key)
            /\ ~Last(typeContext'.accessed[lastOp'.key])
       /\ lastOp'.op \in {"scope", "query"} => typeContext'.accessed = typeContext.accessed
      ]_vars

\* a get has marked the inner of two entries of a name and left the outer
\* entry and the entry of the other name unread
C27_Witness ==
    /\ lastOp.op = "get"
    /\ StackOf(typeContext.accessed, lastOp.key) = <<FALSE, TRUE>>
    /\ \E n \in CtxNames \ {lastOp.key} : StackOf(typeContext.accessed, n) = <<FALSE>>

\* a same-scope check has found its read while the flags of the context of
\* validate are all unread
C27_WitnessScope ==
    /\ lastOp.op = "scope"
    /\ lastOp.got = "same-scope"
    /\ StackOf(typeContext.accessed, lastOp.key) = <<FALSE>>

(***************************************************************************)
(* Claims about validate.  They read the diagnostics validate returned     *)
(* against the document the pass was started on.                           *)
(***************************************************************************)
\* the layout node of the text t and its children
LayoutNodes(t) ==
    <<getPropertyNode(ParseText(t), "layout")>>
    \o MistChildren(getPropertyNode(ParseText(t), "layout"))
    \o Flatten([k \in 1..Len(MistChildren(getPropertyNode(ParseText(t), "layout"))) |->
                   MistChildren(MistChildren(getPropertyNode(ParseText(t), "layout"))[k])])

\* the vars objects of a node: its vars object, or the objects of its vars array
VarsObjects(node) ==
    CASE getPropertyNode(node, "vars").type = "object" -> <<getPropertyNode(node, "vars")>>
      [] getPropertyNode(node, "vars").type = "array" ->
           SelectSeq(getPropertyNode(node, "vars").items, LAMBDA c : c.type = "object")
      [] OTHER -> <<>>

\* the entries (properties) of all vars objects of the node, in document order
VarsEntries(node) == Flatten([k \in 1..Len(VarsObjects(node)) |-> VarsObjects(node)[k].props])

\* the identifiers of the expressions of a value node, each with its document range
IdentifiersIn(valueNode) ==
    IF valueNode.type # "string" THEN {}
    ELSE UNION {{[name |-> id.text, offset |-> valueNode.offset + e.offset + id.offset,
                  length |-> id.length] : id \in Range(parse(e.string.parsed).ids)} :
                e \in Range(findExpressionsInString(valueNode))}

\* how many of the returned diagnostics carry the message at the offset
Count(message, offset) ==
    Cardinality({i \in DOMAIN returned :
                    returned[i].message = message /\ returned[i].offset = offset})

Returned(message) == {d \in Range(returned) : d.message = message}

\* the ranges of the reads, in the values of the vars object o, of another key of o
SiblingReads(o) ==
    UNION {{[offset |-> id.offset, length |-> id.length] :
               id \in {x \in IdentifiersIn(p.value) :
                          x.name \in {q.key : q \in Range(o.props)} \ {p.key}}} :
           p \in Range(o.props)}

\* C3: in validate, a value expression of a vars object that reads another
\* key of the same object gets one Error on the reading identifier, whatever
\* the order of the keys; a read of a key of an earlier element of a vars
\* array gets none.  The same-scope Errors validate returns are exactly the
\* reads of sibling keys, one each.
C3_SameScope ==
    phase = "done" =>
        /\ {[offset |-> d.offset, length |-> d.length] : d \in Returned("same-scope")}
              = UNION {SiblingReads(o) :
                          o \in UNION {Range(VarsObjects(n)) : n \in Range(LayoutNodes(document))}}
        /\ \A d \in Returned("same-scope") :
              d.severity = "Error" /\ Count("same-scope", d.offset) = 1

\* validate returned for a vars object that reads a later key, with the Error on it
C3_Witness ==
    /\ phase = "done"
    /\ document.top.vars = "{b=a,a}"
    /\ Returned("same-scope") # {}

\* the key offsets of the vars entries of the document
VarEntryKeys(t) ==
    UNION {{p.keyOffset : p \in Range(VarsEntries(n))} : n \in Range(LayoutNodes(t))}

\* C8: when validate pops a binding that a vars entry of the document
\* introduced and no expression read it while it was the innermost binding
\* of its name, exactly one unused-variable Warning is on the key of the
\* entry; a binding that was read gets none, and no unused-variable
\* diagnostic is anywhere but on the key of a vars entry.
C8_UnusedVariable ==
    phase = "done" =>
        /\ \A key \in VarEntryKeys(document) :
              Count("unused-variable", key) =
                  IF \E k \in DOMAIN lookups : lookups[k].binder = key THEN 0 ELSE 1
        /\ \A d \in Returned("unused-variable") :
              d.severity = "Warning" /\ d.offset \in VarEntryKeys(document)

\* validate returned with one vars binding unused, another read, and a
\* repeat whose _item_ and _index_ nothing read
C8_Witness ==
    /\ phase = "done"
    /\ Returned("unused-variable") # {}
    /\ \E k \in DOMAIN lookups : lookups[k].binder >= 0
    /\ document.top.repeat = "items"
    /\ \A k \in DOMAIN lookups : lookups[k].name \notin {"_item_", "_index_"}

\* the properties of a node that its schema does not declare
UndeclaredProperties(node) ==
    {p \in Range(node.props) : p.key \notin DOMAIN NodeSchema(node).properties}

\* the last vars entry of the node that binds the name
LastEntry(node, name) ==
    VarsEntries(node)[CHOOSE i \in DOMAIN VarsEntries(node) :
                         /\ VarsEntries(node)[i].key = name
                         /\ \A j \in (i + 1)..Len(VarsEntries(node)) :
                               VarsEntries(node)[j].key # name]

\* C9: a vars binding of a node that an expression in an undeclared
\* property of the node reads counts as read: validate returns (the schema
\* being closed) the unknown-property Warning on the key of the property
\* and no unused-variable Warning for the binding.
C9_ReadInUnknownProperty ==
    phase = "done" =>
        \A n \in Range(LayoutNodes(document)) : \A p \in UndeclaredProperties(n) :
            /\ additionalProperties = "false" =>
                  \E d \in Returned("unknown-property") :
                      d.offset = p.keyOffset /\ d.severity = "Warning"
            /\ \A id \in IdentifiersIn(p.value) :
                  (\E e \in Range(VarsEntries(n)) : e.key = id.name)
                      => Count("unused-variable", LastEntry(n, id.name).keyOffset) = 0

\* validate returned for a node whose only read of its binding a is in foo
C9_Witness ==
    /\ phase = "done"
    /\ document.top.vars = "{a}" /\ document.top.foo = "a" /\ document.top.text = "none"
    /\ document.kids = <<>>
    /\ Returned("unknown-property") # {}
    /\ Returned("unused-variable") = {}

\* every identifier of the value of the property was checked against typeContext
TypeChecked(p) ==
    \A id \in IdentifiersIn(p.value) :
        \E k \in DOMAIN lookups : lookups[k].at = p.value.offset /\ lookups[k].name = id.name

\* C12: a property of a node whose key the schema of the node does not
\* declare gets exactly one unknown-property Warning on its key when the
\* schema is closed (additionalProperties false) and none when it is not;
\* the expressions of its value are type-checked in both cases.
C12_UnknownProperty ==
    phase = "done" =>
        \A n \in Range(LayoutNodes(document)) : \A p \in UndeclaredProperties(n) :
            /\ Count("unknown-property", p.keyOffset)
                  = IF additionalProperties = "false" THEN 1 ELSE 0
            /\ TypeChecked(p)

\* what does hold of the code: a schema that says nothing of additional
\* properties counts as closed for every key but children, and as open for
\* children
C12_AbsentIsClosedButForChildren ==
    phase = "done" =>
        \A n \in Range(LayoutNodes(document)) : \A p \in UndeclaredProperties(n) :
            /\ Count("unknown-property", p.keyOffset)
                  = IF \/ additionalProperties = "false"
                       \/ additionalProperties = "absent" /\ p.key # "children"
                    THEN 1 ELSE 0
            /\ TypeChecked(p)

\* validate returned for a node with foo under a schema that says nothing of
\* additional properties, with the Warning on foo
C12_AbsentWitness ==
    /\ phase = "done"
    /\ additionalProperties = "absent"
    /\ document.top.foo = "a"
    /\ Returned("unknown-property") # {}

\* the string values of the properties of a node
StringValues(node) == {p.value : p \in {q \in Range(node.props) : q.value.type = "string"}}

\* the expressions of the string values of the layout nodes: the string
\* node, the expression and what parse makes of it
DocumentExpressions ==
    UNION {UNION {{[node |-> v, exp |-> e, parsed |-> parse(e.string.parsed)] :
                      e \in Range(findExpressionsInString(v))} :
                  v \in StringValues(n)} :
           n \in Range(LayoutNodes(document))}

\* the document offset of the error of an expression that failed to parse
ErrorOffset(x) == ExpRange(x.node, x.exp, x.parsed.errorOffset, x.parsed.errorLength).offset

\* C13: an expression of a string that fails to lex or parse gets exactly
\* one Error of the parser and no type check (no identifier of it is looked
\* up); every other expression of the same string and of every other string
\* of the layout nodes is type-checked, each of its identifiers looked up.
C13_SyntaxErrorLocal ==
    phase = "done" =>
        /\ \A x \in DocumentExpressions :
              IF x.parsed.errorMessage # ""
              THEN /\ Count("syntax", ErrorOffset(x)) = 1
                   /\ \A k \in DOMAIN lookups :
                         ~(lookups[k].at = x.node.offset /\ lookups[k].exp = x.exp.offset)
              ELSE \A id \in Range(x.parsed.ids) :
                       \E k \in DOMAIN lookups :
                           /\ lookups[k].at = x.node.offset
                           /\ lookups[k].exp = x.exp.offset
                           /\ lookups[k].name = id.text
        /\ \A d \in Returned("syntax") :
              /\ d.severity = "Error"
              /\ \E x \in DocumentExpressions :
                    x.parsed.errorMessage # "" /\ d.offset = ErrorOffset(x)

\* validate returned for a text whose first expression fails to parse: the
\* Error of the parser, the second expression looked up, and the text of the
\* child checked too
C13_Witness ==
    /\ phase = "done"
    /\ document.top.text = "a+ b"
    /\ document.kids # <<>>
    /\ Returned("syntax") # {}
    /\ \E k \in DOMAIN lookups : lookups[k].name = "b"
    /\ \E k \in DOMAIN lookups : lookups[k].name = "nope"

\* the template {"layout":{"type":"text","text":"${...}"}} reading the name,
\* with the exp-version e
ReadingTemplate(name, e) ==
    Text("template", [PlainRoot EXCEPT !.version = e], [Plain EXCEPT !.text = name], <<>>)

\* C5 as stated: validate on {"layout":{"type":"text","text":"${_width_}"}}
\* returns zero diagnostics.
C5_ZeroDiagnostics ==
    (phase = "done" /\ document = ReadingTemplate("_width_", "none")) => returned = <<>>

\* C5: validate on {"layout":{"type":"text","text":"${_width_}"}} returns
\* one diagnostic, the exp-version Warning on the layout key, and nothing for
\* the expression; with "exp-version": 2 in the template it returns none.
C5_OnlyExpVersionWarning ==
    /\ (phase = "done" /\ document = ReadingTemplate("_width_", "none")) =>
           returned = <<nodeRange(KeyNodeOf(ParseText(document), "layout"),
                                  "exp-version", "Warning")>>
    /\ (phase = "done" /\ document = ReadingTemplate("_width_", "2")) => returned = <<>>

\* validate returned for the template without exp-version
C5_Witness ==
    /\ phase = "done"
    /\ document = ReadingTemplate("_width_", "none")
    /\ Len(returned) = 1

\* the Errors among the returned diagnostics
ReturnedErrors == SelectSeq(returned, LAMBDA d : d.severity = "Error")

\* C6: validate on {"layout":{"type":"text","text":"${nope}"}} returns
\* exactly one Error; it starts at the offset of nope in the document (the
\* offset of the string node + 3) and spans the 4 characters of nope.
C6_OneErrorAtNope ==
    (phase = "done" /\ document = ReadingTemplate("nope", "none")) =>
        /\ Len(ReturnedErrors) = 1
        /\ ReturnedErrors[1].offset =
              getPropertyNode(LayoutNodes(document)[1], "text").offset + 3
        /\ ReturnedErrors[1].length = 4

\* validate returned for the template, with an Error in the diagnostics
C6_Witness ==
    /\ phase = "done"
    /\ document = ReadingTemplate("nope", "none")
    /\ ReturnedErrors # <<>>

\* the is-accessibility-element value node of a node
FlagNode(node) == getPropertyNode(getPropertyNode(node, "style"), "is-accessibility-element")

\* the value is there and is neither the literal true nor the literal false
NotLiteral(f) == Present(f) /\ ~IsTrue(f) /\ ~IsFalse(f)

\* C10 as stated: a node whose is-accessibility-element is not a literal
\* boolean gets the literal-only Error on that value exactly once, and a
\* literal true or false never gets it.
C10_LiteralOnly ==
    phase = "done" =>
        \A n \in Range(LayoutNodes(document)) :
            Present(FlagNode(n)) =>
                Count("a11y-literal-only", FlagNode(n).offset)
                    = IF NotLiteral(FlagNode(n)) THEN 1 ELSE 0

\* C10: unless the template switches the accessibility check off with
\* "disable-accessibility-check": true, a node whose is-accessibility-element
\* is not a literal boolean gets the literal-only Error on that value node
\* exactly once; a literal true or false never gets it, and with the check
\* switched off no node gets it.
C10_LiteralOnlyWhenEnabled ==
    phase = "done" =>
        /\ \A n \in Range(LayoutNodes(document)) :
              Present(FlagNode(n)) =>
                  Count("a11y-literal-only", FlagNode(n).offset)
                      = IF NotLiteral(FlagNode(n)) /\ ~document.root.disable THEN 1 ELSE 0
        /\ \A d \in Returned("a11y-literal-only") :
              /\ d.severity = "Error"
              /\ \E n \in Range(LayoutNodes(document)) :
                    d.offset = FlagNode(n).offset /\ d.length = FlagNode(n).length

\* validate returned the literal-only Error for "${flag}" with the check on
C10_Witness ==
    /\ phase = "done"
    /\ ~document.root.disable
    /\ document.top.flag = "exp"
    /\ Returned("a11y-literal-only") # {}

\* the string node at the offset lies in the subtree of a node with a repeat
InsideRepeat(at) ==
    \E n \in Range(LayoutNodes(document)) :
        HasProperty(n, "repeat") /\ n.offset <= at /\ at < n.offset + n.length

\* C4: the _item_ and _index_ that a repeat binds resolve only inside the
\* subtree of its node; an expression of any node outside it (an ancestor,
\* an earlier or a later sibling) finds for _item_ and _index_ what it would
\* find without the repeat node, the Null of the top level.
C4_RepeatBindingsInside ==
    \A k \in DOMAIN lookups :
        (lookups[k].name \in {"_item_", "_index_"} /\ ~InsideRepeat(lookups[k].at))
            => lookups[k].value = "Null"

\* the kind of the node is one of the exempt kinds
Exempt(node) ==
    /\ getPropertyNode(node, "type").type = "string"
    /\ getPropertyNode(node, "type").value \in {"text", "button"}

\* the flag of the node is literally true and its style has no label
FlaggedUnlabelled(node) ==
    /\ IsTrue(FlagNode(node))
    /\ ~HasProperty(getPropertyNode(node, "style"), "accessibility-label")

\* C11 as stated: a node whose flag is literally true and whose style has no
\* accessibility-label gets the missing-label Error exactly once when its
\* kind is neither text nor button, and not at all when it is.
C11_LabelByKind ==
    phase = "done" =>
        \A n \in Range(LayoutNodes(document)) :
            FlaggedUnlabelled(n) =>
                Count("a11y-label-required",
                      KeyNodeOf(getPropertyNode(n, "style"), "is-accessibility-element").offset)
                    = IF Exempt(n) THEN 0 ELSE 1

\* C11: unless the template switches the accessibility check off, a node
\* whose flag is literally true and whose style has no accessibility-label
\* gets the missing-label Error on the key of the flag exactly once when its
\* kind is neither text nor button (a node without a type included) and not
\* at all when it is; no other node gets it, and with the check switched
\* off no node gets it.
C11_LabelByKindWhenEnabled ==
    phase = "done" =>
        /\ \A n \in Range(LayoutNodes(document)) :
              FlaggedUnlabelled(n) =>
                  Count("a11y-label-required",
                        KeyNodeOf(getPropertyNode(n, "style"), "is-accessibility-element").offset)
                      = IF Exempt(n) \/ document.root.disable THEN 0 ELSE 1
        /\ \A d \in Returned("a11y-label-required") :
              /\ d.severity = "Error"
              /\ \E n \in Range(LayoutNodes(document)) :
                    /\ FlaggedUnlabelled(n)
                    /\ d.offset = KeyNodeOf(getPropertyNode(n, "style"),
                                            "is-accessibility-element").offset

\* validate returned the missing-label Error for a flagged node without a
\* type and without children, the check being on
C11_Witness ==
    /\ phase = "done"
    /\ ~document.root.disable
    /\ document.top.type = "none" /\ document.top.flag = "true" /\ ~document.top.label
    /\ document.kids = <<>>
    /\ Returned("a11y-label-required") # {}

QueryAt(root, layout, at, name) ==
    BaseGet(contextAtLocation(root, fileData, PathAt(layout, at),
                              KeyAt(NodeAtPath(layout, PathAt(layout, at)), at), at).table,
            name)

\* C15: for every identifier that validate looks up in an expression of the
\* layout, the environment of a point query at the location of the
\* expression resolves the name to what validate found for it.
C15_SameEnvironment ==
    \A k \in DOMAIN lookups :
        Contains(getPropertyNode(ParseText(rootNode), "layout"), lookups[k].at)
            => QueryAt(ParseText(rootNode), getPropertyNode(ParseText(rootNode), "layout"),
                       lookups[k].at, lookups[k].name) = lookups[k].value

\* where the two do agree: on every name but _item_ and _index_, in a node
\* that is not reached after the subtree of a sibling, outside vars
C15_SameOutsideRepeatNames ==
    \A k \in DOMAIN lookups :
        (/\ Contains(getPropertyNode(ParseText(rootNode), "layout"), lookups[k].at)
         /\ lookups[k].name \notin {"_item_", "_index_"}
         /\ document.kids = <<>>
         /\ KeyAt(getPropertyNode(ParseText(rootNode), "layout"), lookups[k].at) # "vars")
            => QueryAt(ParseText(rootNode), getPropertyNode(ParseText(rootNode), "layout"),
                       lookups[k].at, lookups[k].name) = lookups[k].value

(***************************************************************************)
(* Claims about the caches of a document                                   *)
(***************************************************************************)
\* C2: after any open and change events, a query works on a root node, a
\* template and a node tree that all come from the current text of the
\* document; nothing built from an earlier text is reused.
C2_QueryOnCurrentText ==
    phase \in {"walking", "done"} =>
        /\ rootNode = IF Present(ParseText(document)) THEN document ELSE NoText
        /\ template = IF Present(ParseText(document)) THEN document ELSE NoText
        /\ nodeTree = IF HasProperty(ParseText(document), "layout") THEN document ELSE NoText

\* C20 (as stated): a node gets the tap-requires-flag Error if and only if
\* it has an on-tap and its style has no is-accessibility-element at all.
C20_TapRequiresFlag ==
    phase = "done" =>
        \A n \in Range(LayoutNodes(document)) :
            HasProperty(n, "on-tap") =>
                Count("a11y-tap-requires-flag", KeyNodeOf(n, "on-tap").offset)
                    = IF ~Present(FlagNode(n)) THEN 1 ELSE 0

\* C20: unless the template switches the accessibility check off, a node
\* gets the tap-requires-flag Error, once and on the key of its on-tap, if
\* and only if it has an on-tap and its style has no
\* is-accessibility-element; a flag of false, true or an expression
\* suppresses it, and with the check switched off no node gets it.
C20_TapRequiresFlagWhenEnabled ==
    phase = "done" =>
        /\ \A n \in Range(LayoutNodes(document)) :
              HasProperty(n, "on-tap") =>
                  Count("a11y-tap-requires-flag", KeyNodeOf(n, "on-tap").offset)
                      = IF ~Present(FlagNode(n)) /\ ~document.root.disable THEN 1 ELSE 0
        /\ \A d \in Returned("a11y-tap-requires-flag") :
              /\ d.severity = "Error"
              /\ \E n \in Range(LayoutNodes(document)) :
                    /\ HasProperty(n, "on-tap")
                    /\ d.offset = KeyNodeOf(n, "on-tap").offset
                    /\ d.length = KeyNodeOf(n, "on-tap").length

\* validate finished on a node with an on-tap and a flag of false, with the
\* check on, and returned no tap-requires-flag Error
C20_Witness ==
    /\ phase = "done"
    /\ ~document.root.disable
    /\ document.top.tap # "none"
    /\ document.top.flag = "false"
    /\ Returned("a11y-tap-requires-flag") = {}

\* the same with no flag at all: the Error is returned
C20_WitnessNoFlag ==
    /\ phase = "done"
    /\ ~document.root.disable
    /\ document.top.tap # "none"
    /\ document.top.flag = "none"
    /\ Returned("a11y-tap-requires-flag") # {}

\* the node of frame k of the walk
FrameNode(k) == NodeAtPath(getPropertyNode(ParseText(nodeTree), "layout"), frames[k].path)

\* the flagged nodes on the path from the root to the current node: the
\* frames of a flagged node that are past the node's checks
FlaggedOnPath ==
    {k \in 1..Len(frames) : frames[k].pc = "children" /\ IsTrue(FlagNode(FrameNode(k)))}

\* the node at the path is flagged and so is one of its proper ancestors
NestedAt(layout, q) ==
    /\ IsTrue(FlagNode(NodeAtPath(layout, q)))
    /\ \E j \in 0..(Len(q) - 1) : IsTrue(FlagNode(NodeAtPath(layout, SubSeq(q, 1, j))))

\* the nested Error is returned, once each, on the flags of the nodes given
NestedErrorsOn(layout, nested) ==
    \A q \in PathsOf(layout) :
        Present(FlagNode(NodeAtPath(layout, q))) =>
            Count("a11y-nested", FlagNode(NodeAtPath(layout, q)).offset)
                = IF nested /\ NestedAt(layout, q) THEN 1 ELSE 0

\* C19 (as stated): the depth counter is the number of flagged nodes on the
\* path from the root to the current node at every step, never negative and
\* 0 when the walk ends, and a node gets the nested Error if and only if it
\* is flagged and has a flagged proper ancestor.
C19_NestedDepth ==
    /\ hasAccessibilityDepth >= 0
    /\ phase = "walking" => hasAccessibilityDepth = Cardinality(FlaggedOnPath)
    /\ phase = "done" =>
           /\ hasAccessibilityDepth = 0
           /\ nodeTree # NoText =>
                  NestedErrorsOn(getPropertyNode(ParseText(nodeTree), "layout"), TRUE)

\* C19: unless the template switches the accessibility check off, the depth
\* counter is the number of flagged nodes on the path from the root to the
\* current node at every step of the walk (a node counting from its own
\* checks on), and a node gets the nested Error, once and on its flag, if
\* and only if it is flagged and has a flagged proper ancestor, so never
\* because of a sibling or a sibling's descendant.  The counter is never
\* negative and is 0 when the walk ends; with the check switched off it
\* stays 0 and no node gets the Error.
C19_NestedDepthWhenEnabled ==
    /\ hasAccessibilityDepth >= 0
    /\ phase = "walking" =>
           hasAccessibilityDepth =
               IF accessibilityCheckEnabled THEN Cardinality(FlaggedOnPath) ELSE 0
    /\ phase = "done" =>
           /\ hasAccessibilityDepth = 0
           /\ nodeTree # NoText =>
                  NestedErrorsOn(getPropertyNode(ParseText(nodeTree), "layout"),
                                 ~document.root.disable)

\* the walk is in the flagged grandchild of a flagged root under a child
\* that is not flagged, after a flagged sibling subtree was left, and the
\* one nested Error so far is the one of that sibling's
C19_Witness ==
    /\ phase = "walking"
    /\ ~document.root.disable
    /\ Len(frames) = 3
    /\ frames[2].path = <<2>>
    /\ Top.pc = "children"
    /\ document.top.flag = "true"
    /\ document.kids[1].flag = "true"
    /\ document.kids[2].flag = "none" /\ document.kids[2].sub = "flagged"
    /\ hasAccessibilityDepth = 2

A11yMessages ==
    {"a11y-literal-only", "a11y-label-requires-flag", "a11y-label-required",
     "a11y-nested", "a11y-tap-requires-flag"}

\* the diagnostics that are not of the accessibility check
OtherDiagnostics(ds) == SelectSeq(ds, LAMBDA d : d.message \notin A11yMessages)

\* the text without the setting
WithCheck(t) == [t EXCEPT !.root.disable = FALSE]

\* the diagnostics at the places they have in the text without the
\* property that starts at the offset and takes the width
WithoutProperty(ds, offset, width) ==
    [i \in DOMAIN ds |-> IF ds[i].offset >= offset
                         THEN [ds[i] EXCEPT !.offset = @ - width] ELSE ds[i]]

SettingOffset(t) == KeyNodeOf(ParseText(t), "disable-accessibility-check").offset

SettingWidth(t) ==
    getPropertyNode(ParseText(t), "layout").offset
        - getPropertyNode(ParseText(WithCheck(t)), "layout").offset

\* C18: on a template whose root sets disable-accessibility-check to true
\* validate returns no diagnostic of the accessibility check, the depth
\* counter stays 0, and what it returns is, place for place, what it
\* returned for the text without the setting less the accessibility
\* diagnostics.
C18_DisableSwitch ==
    (document.root.disable /\ rootNode = document /\ nodeTree = document) =>
        /\ hasAccessibilityDepth = 0
        /\ \A d \in Range(diagnostics) : d.message \notin A11yMessages
        /\ phase = "done" =>
               /\ \A d \in Range(returned) : d.message \notin A11yMessages
               /\ validated.prior.document = WithCheck(document) =>
                      WithoutProperty(returned, SettingOffset(document),
                                      SettingWidth(document))
                          = OtherDiagnostics(validated.prior.returned)

\* validate has finished on a template with the setting, after a call on
\* the same text without it that returned accessibility Errors and an
\* unknown-identifier Error, and returned the latter
C18_Witness ==
    /\ phase = "done"
    /\ document.root.disable
    /\ validated.prior.document = WithCheck(document)
    /\ \E d \in Range(validated.prior.returned) : d.message \in A11yMessages
    /\ \E d \in Range(validated.prior.returned) : d.message = "a11y-nested"
    /\ returned # <<>>
    /\ OtherDiagnostics(validated.prior.returned) # <<>>

\* the accessibility-label value node of a node
LabelNode(node) == getPropertyNode(getPropertyNode(node, "style"), "accessibility-label")

\* where the label-requires-flag Error of a node is reported
LabelErrorNode(node) == IF Present(FlagNode(node)) THEN FlagNode(node) ELSE LabelNode(node)

\* C21 (as stated): a node gets the label-requires-flag Error, once, on its
\* flag when it has one and else on its label, if and only if its style has
\* an accessibility-label and the flag is absent or not literally true.
C21_LabelRequiresFlag ==
    phase = "done" =>
        \A n \in Range(LayoutNodes(document)) :
            Present(LabelNode(n)) =>
                Count("a11y-label-requires-flag", LabelErrorNode(n).offset)
                    = IF ~IsTrue(FlagNode(n)) THEN 1 ELSE 0

\* C21: unless the template switches the accessibility check off, a node
\* gets the label-requires-flag Error, once, on its flag when it has one and
\* else on its label, if and only if its style has an accessibility-label
\* and the flag is absent or not literally true; no other place gets it, and
\* with the check switched off no node gets it.
C21_LabelRequiresFlagWhenEnabled ==
    phase = "done" =>
        /\ \A n \in Range(LayoutNodes(document)) :
              Present(LabelNode(n)) =>
                  Count("a11y-label-requires-flag", LabelErrorNode(n).offset)
                      = IF ~IsTrue(FlagNode(n)) /\ ~document.root.disable THEN 1 ELSE 0
        /\ \A d \in Returned("a11y-label-requires-flag") :
              /\ d.severity = "Error"
              /\ \E n \in Range(LayoutNodes(document)) :
                    /\ Present(LabelNode(n))
                    /\ d.offset = LabelErrorNode(n).offset
                    /\ d.length = LabelErrorNode(n).length

\* validate returned the Error on the flag of a node with a label and a
\* flag of false, the check being on
C21_Witness ==
    /\ phase = "done"
    /\ ~document.root.disable
    /\ document.top.label /\ document.top.flag = "false"
    /\ \E d \in Returned("a11y-label-requires-flag") :
          d.offset = FlagNode(LayoutNodes(document)[1]).offset

\* the type validate found for the expression of the repeat of the node
RepeatedType(n) ==
    lookups[CHOOSE k \in DOMAIN lookups :
                Contains(getPropertyNode(n, "repeat"), lookups[k].at)].value

\* the lookups of the name in the node with the repeat, outside the repeat
\* expression itself
RepeatLookups(n, name) ==
    {k \in DOMAIN lookups :
        /\ lookups[k].name = name
        /\ Contains(n, lookups[k].at)
        /\ ~Contains(getPropertyNode(n, "repeat"), lookups[k].at)}

\* both validate and a point query at the place of lookup k find the type
BothFind(k, type) ==
    /\ lookups[k].value = type
    /\ QueryAt(ParseText(rootNode), getPropertyNode(ParseText(rootNode), "layout"),
               lookups[k].at, lookups[k].name) = type

\* C22: in a node with a repeat, validate and contextAtLocation bind
\* _index_ to Number and _item_ to the element type of the type of the
\* repeat expression (String when it repeats over an array of strings).
C22_RepeatBindsElementType ==
    phase = "done" =>
        \A n \in Range(LayoutNodes(document)) :
            HasProperty(n, "repeat") =>
                /\ \A k \in RepeatLookups(n, "_index_") : BothFind(k, "Number")
                /\ \A k \in RepeatLookups(n, "_item_") :
                       BothFind(k, getTypeAtIndex(RepeatedType(n)))

\* what both bind: _index_ to Number and _item_ to Any, whatever is repeated
C22_RepeatBindsAny ==
    phase = "done" =>
        \A n \in Range(LayoutNodes(document)) :
            HasProperty(n, "repeat") =>
                /\ \A k \in RepeatLookups(n, "_index_") : BothFind(k, "Number")
                /\ \A k \in RepeatLookups(n, "_item_") : BothFind(k, "Any")

\* the Variables a point query at the offset has pushed, in the order of
\* their pushes
VarsAt(root, layout, at) ==
    pushNodeStack(SeedAt(root, fileData), layout, PathAt(layout, at),
                  0, KeyAt(NodeAtPath(layout, PathAt(layout, at)), at), at).vars

\* the elements of the array that hold the key of one of the Variables
ElementsBound(items, vs) ==
    {i \in 1..Len(items) : \E k \in 1..Len(vs) : vs[k].hasNode /\ Contains(items[i], vs[k].keyOffset)}

\* every name of the elements resolves to the key of the last element that
\* has it
LaterShadows(items, vs) ==
    \A i \in 1..Len(items) : \A pr \in Range(items[i].props) :
        \E j \in i..Len(items) :
            /\ Contains(items[j], vs[findLastIndex(vs, pr.key)].keyOffset)
            /\ \A l \in (j + 1)..Len(items) : \A q \in Range(items[l].props) : q.key # pr.key

\* the offsets of the values of the properties of the nodes in the tree of
\* the layout, but of the vars of the layout node itself and of the keys
ElsewhereIn(layout, keys) ==
    {pr.value.offset : pr \in {q \in Range(layout.props) : q.key \notin {"vars"} \cup keys}}
    \cup UNION {{pr.value.offset : pr \in Range(MistChildren(layout)[k].props)} :
                k \in 1..Len(MistChildren(layout))}

\* the scopes of a vars array of objects at the offsets inside its elements
\* and at the offsets elsewhere
OrderedScopes(root, layout, items, keys) ==
    /\ \A i \in 1..Len(items) :
           ElementsBound(items, VarsAt(root, layout, items[i].offset)) = 1..(i - 1)
    /\ \A at \in ElsewhereIn(layout, keys) :
           /\ ElementsBound(items, VarsAt(root, layout, at)) = 1..Len(items)
           /\ LaterShadows(items, VarsAt(root, layout, at))

HasVarsObjects(layout) ==
    /\ getPropertyNode(layout, "vars").type = "array"
    /\ \A i \in 1..Len(getPropertyNode(layout, "vars").items) :
           /\ getPropertyNode(layout, "vars").items[i].type = "object"
           /\ getPropertyNode(layout, "vars").items[i].props # <<>>

\* C23: for a query inside element i of the vars array of a node,
\* contextAtLocation binds the keys of the elements before i and no key of
\* the elements from i on; for a query elsewhere in the node or in its
\* descendants it binds the keys of all elements, later elements shadowing
\* earlier ones.
C23_OrderedScopes ==
    (phase = "done" /\ HasVarsObjects(getPropertyNode(ParseText(document), "layout")))
        => OrderedScopes(ParseText(document), getPropertyNode(ParseText(document), "layout"),
                         getPropertyNode(getPropertyNode(ParseText(document), "layout"),
                                         "vars").items, {})

\* C23 as the code has it: the same but for a query in the repeat of the
\* node, which is evaluated before the vars are bound and binds none of them
C23_OrderedScopesButRepeat ==
    (phase = "done" /\ HasVarsObjects(getPropertyNode(ParseText(document), "layout")))
        => /\ OrderedScopes(ParseText(document), getPropertyNode(ParseText(document), "layout"),
                            getPropertyNode(getPropertyNode(ParseText(document), "layout"),
                                            "vars").items, {"repeat"})
           /\ HasProperty(getPropertyNode(ParseText(document), "layout"), "repeat") =>
                  ElementsBound(
                      getPropertyNode(getPropertyNode(ParseText(document), "layout"), "vars").items,
                      VarsAt(ParseText(document), getPropertyNode(ParseText(document), "layout"),
                             getPropertyNode(getPropertyNode(ParseText(document), "layout"),
                                             "repeat").offset)) = {}

\* a validated node with a repeat, a child and a vars array of two elements
\* that bind the same name
C23_Witness ==
    /\ phase = "done"
    /\ document \in VarsTexts
    /\ document.top.repeat = "items"
    /\ document.top.vars = "[{a},{a=a}]"
    /\ document.kids # <<>>
    /\ ElementsBound(
           getPropertyNode(getPropertyNode(ParseText(document), "layout"), "vars").items,
           VarsAt(ParseText(document), getPropertyNode(ParseText(document), "layout"),
                  getPropertyNode(getPropertyNode(ParseText(document), "layout"),
                                  "vars").items[2].offset)) = {1}

\* the offset lies in the value of an event property of a node
InEventValue(at) ==
    \E n \in Range(LayoutNodes(document)) : \E pr \in Range(n.props) :
        pr.key \in EventKeys /\ Contains(pr.value, at)

\* C24: during validate _event_ is visible exactly while the value of a
\* property whose key starts with on- is checked: an expression finds the
\* event type for _event_ if and only if it lies in such a value.
C24_EventOnlyInHandler ==
    \A k \in DOMAIN lookups :
        lookups[k].name = "_event_" =>
            (lookups[k].value = getEventParamsType("on-tap") <=> InEventValue(lookups[k].at))

\* what does hold: an expression in the value of an event property finds the
\* event type for _event_
C24_EventInHandler ==
    \A k \in DOMAIN lookups :
        (lookups[k].name = "_event_" /\ InEventValue(lookups[k].at))
            => lookups[k].value = getEventParamsType("on-tap")

\* the validateNode call on top has pushed what it pushes for its node
AtNode == phase = "walking" /\ frames # <<>> /\ Top.pc \in {"props", "checks", "children"}

\* the names the call on top pushed for its node, in the order of the pushes:
\* the last Variables of the list
PushOrder ==
    [k \in 1..Len(Top.pushed) |-> varList[Len(varList) - Len(Top.pushed) + k].name]

Reverse(s) == [k \in 1..Len(s) |-> s[Len(s) + 1 - k]]

\* C25: on leaving a node validate pops the bindings it pushed for the node
\* (repeat variables and vars entries) in the reverse of the order in which
\* it pushed them.
C25_PopsInReverse == AtNode => Top.pushed = Reverse(PushOrder)

\* the names of the repeat among the pushes of the node
RepeatPushes == IF HasProperty(TopNode, "repeat") THEN 2 ELSE 0

\* C25 as the code has it: the pops are those of the pushes, the repeat
\* variables first and in reverse, then the vars entries in the order of
\* their pushes; they leave the Variables and the bindings that pops in
\* reverse would leave.
C25_PopsRepeatThenVars ==
    AtNode =>
        /\ Top.pushed = Reverse(SubSeq(PushOrder, 1, RepeatPushes))
                            \o SubSeq(PushOrder, RepeatPushes + 1, Len(PushOrder))
        /\ popAll(St, Top.pushed).vars = popAll(St, Reverse(PushOrder)).vars
        /\ popAll(St, Top.pushed).ctx = popAll(St, Reverse(PushOrder)).ctx

\* a node with a repeat and two vars entries, about to be left
C25_Witness ==
    /\ AtNode
    /\ Top.pc = "children"
    /\ Top.i > Len(MistChildren(TopNode))
    /\ HasProperty(TopNode, "repeat")
    /\ Len(Top.pushed) = 4
    /\ Top.pushed[3] # Top.pushed[4]

\* validateNode(this.nodeTree) has returned to validate
TopReturned == phase = "walking" /\ frames = <<>> /\ nodeTree # NoText

\* the pass state at the entry to validateNode(this.nodeTree)
AtEntry == Seed(ParseText(rootNode), fileData, valueTypes.root)

\* C26: pushes and pops are balanced over the walk: when validateNode(n)
\* returns, every name has had as many pops as pushes for n, so the depth of
\* the bindings of every name in the tracking context is its depth at the
\* entry to validateNode(n); here for n the node tree.
C26_DepthRestored ==
    TopReturned =>
        \A name \in DOMAIN typeContext.table :
            Len(StackOf(typeContext.table, name)) = Len(StackOf(AtEntry.ctx.table, name))

\* what the pops do restore: the list of Variables and the read flags of
\* every name
C26_FlagsRestored ==
    TopReturned =>
        /\ [k \in 1..Len(varList) |-> varList[k].name]
               = [k \in 1..Len(AtEntry.vars) |-> AtEntry.vars[k].name]
        /\ \A name \in DOMAIN typeContext.accessed :
               Len(StackOf(typeContext.accessed, name)) = Len(StackOf(AtEntry.ctx.accessed, name))

\* C27 in the pass: the same-scope check of the values of a vars object
\* leaves the context of validate as the check without scope variables does
C27_ScopeCheckApart ==
    (phase = "walking" /\ frames # <<>> /\ Top.pc = "enter"
        /\ getPropertyNode(TopNode, "vars").type = "object")
        => \A pr \in Range(getPropertyNode(TopNode, "vars").props) :
               validate(St, pr.value,
                        SelectSeq([i \in 1..Len(getPropertyNode(TopNode, "vars").props) |->
                                      getPropertyNode(TopNode, "vars").props[i].key],
                                  LAMBDA v : v # pr.key)).ctx
                   = validate(St, pr.value, <<>>).ctx

\* the string node is one ${...} span from its first to its last character
OneSpan(n) ==
    /\ Len(n.raw) >= 5
    /\ SubSeq(n.raw, 1, 3) = <<QUOTE, "$", "{">>
    /\ \A i \in 4..(Len(n.raw) - 2) : n.raw[i] # "}"
    /\ n.raw[Len(n.raw) - 1] = "}"

\* the string node is the $: shorthand for one expression
Shorthand(n) == Len(n.raw) >= 3 /\ SubSeq(n.raw, 1, 3) = <<QUOTE, "$", ":">>

\* the pass has checked the expressions of the string node: it has looked
\* up their identifiers or reported them
Looked(n) ==
    \/ \E k \in DOMAIN lookups : lookups[k].at = n.offset
    \/ \E d \in Range(returned) :
           d.message = "syntax" /\ n.offset <= d.offset /\ d.offset <= n.offset + n.length

\* the nodes that are objects have had the value of their text checked
ObjectsValidated ==
    \A n \in Range(LayoutNodes(document)) :
        (n.type = "object" /\ HasProperty(n, "text")) => Looked(getPropertyNode(n, "text"))

\* a vars that is neither object nor array gets one Error
VarsShapeReported ==
    \A n \in Range(LayoutNodes(document)) :
        (n.type = "object" /\ HasProperty(n, "vars")
            /\ getPropertyNode(n, "vars").type \notin {"object", "array"})
            => Count("vars-shape", getPropertyNode(n, "vars").offset) = 1

\* C28: a layout node gets the Error that a node must be an object, and is
\* skipped, if and only if it is neither an object nor a string that is one
\* expression (one ${...} span over the whole string, or the $: shorthand); a
\* vars that is neither object nor array gets one Error and pushes nothing;
\* the siblings of the node and the rest of the document are validated.
C28_ShapeErrors ==
    /\ phase = "done" =>
          /\ \A n \in Range(LayoutNodes(document)) :
                 /\ Count("node-must-be-object", n.offset)
                        = IF n.type = "object"
                             \/ (n.type = "string" /\ (OneSpan(n) \/ Shorthand(n)))
                          THEN 0 ELSE 1
                 /\ (n.type = "string" /\ (OneSpan(n) \/ Shorthand(n))) => Looked(n)
          /\ VarsShapeReported
          /\ ObjectsValidated
    /\ (AtNode /\ getPropertyNode(TopNode, "vars").type \notin {"object", "array"})
          => Len(Top.pushed) = RepeatPushes

\* what holds of the code: the same with the shorthand among the strings
\* that get the Error and are skipped
C28_ShapeErrorsOfShorthand ==
    /\ phase = "done" =>
          /\ \A n \in Range(LayoutNodes(document)) :
                 /\ Count("node-must-be-object", n.offset)
                        = IF n.type = "object" \/ (n.type = "string" /\ OneSpan(n))
                          THEN 0 ELSE 1
                 /\ (n.type = "string" /\ OneSpan(n)) => Looked(n)
                 /\ (n.type = "string" /\ ~OneSpan(n)) => ~Looked(n)
          /\ VarsShapeReported
          /\ ObjectsValidated
    /\ (AtNode /\ getPropertyNode(TopNode, "vars").type \notin {"object", "array"})
          => Len(Top.pushed) = RepeatPushes

\* the exp-version Warnings that validate returned
VersionWarnings == SelectSeq(returned, LAMBDA d : d.message = "exp-version")

\* the template has a layout and its exp-version is absent or less than 2
WantsNewVersion(t) ==
    /\ HasProperty(ParseText(t), "layout")
    /\ t.root.version \in {"none", "0", "1"}

\* C39: validate appends the exp-version Warning exactly once if and only
\* if the template has a layout property and exp-version is absent or less
\* than 2, on the exp-version value when present and otherwise on the
\* layout key; it never emits it when exp-version is 2 or more or when
\* there is no layout.
C39_ExpVersionWarning ==
    (phase = "done" /\ Present(ParseText(document))) =>
        IF WantsNewVersion(document)
        THEN /\ Len(VersionWarnings) = 1
             /\ returned[Len(returned)]
                    = nodeRange(IF document.root.version = "none"
                                THEN KeyNodeOf(ParseText(document), "layout")
                                ELSE getPropertyNode(ParseText(document), "exp-version"),
                                "exp-version", "Warning")
        ELSE VersionWarnings = <<>>

\* a template with exp-version 1 whose expression has an error: the Warning
\* is on the value of exp-version, after the Error
C39_Witness ==
    /\ phase = "done"
    /\ document.kind = "template"
    /\ document.root.version = "1"
    /\ Len(returned) > 1
    /\ returned[Len(returned)].message = "exp-version"
    /\ returned[Len(returned)].offset
           = getPropertyNode(ParseText(document), "exp-version").offset

\* a template without layout and with exp-version 1: no Warning
C39_WitnessNoLayout ==
    /\ phase = "done"
    /\ document.kind = "no-layout"
    /\ document.root.version = "1"
    /\ returned = <<>>

\* a template with layout and exp-version 3: no Warning
C39_WitnessNewer ==
    /\ phase = "done"
    /\ document.kind = "template"
    /\ document.root.version = "3"
    /\ VersionWarnings = <<>>

(***************************************************************************)
(* Claims about the functions of strings.  Positions are 0-based offsets   *)
(* into the raw string, which begins and ends with the quote.              *)
(***************************************************************************)
RawOf(chars) == <<QUOTE>> \o chars \o <<QUOTE>>

IsShorthand(chars) == Len(chars) >= 2 /\ chars[1] = "$" /\ chars[2] = ":"

\* a ${ begins at the position, and a } follows it
OpensAt(raw, p) == p + 2 <= Len(raw) /\ raw[p + 1] = "$" /\ raw[p + 2] = "{"
ClosesAfter(raw, p) == \E q \in (p + 2)..(Len(raw) - 1) : raw[q + 1] = "}"

\* the span of a found expression: from its ${ to its }
SpanStart(f) == f.offset - 2
SpanEnd(f) == f.offset + Len(f.source)

\* the found expression is the content of a span that ends at the first }
IsSpan(raw, f) ==
    /\ OpensAt(raw, SpanStart(f))
    /\ SpanEnd(f) < Len(raw) /\ raw[SpanEnd(f) + 1] = "}"
    /\ f.source = SubSeq(raw, f.offset + 1, SpanEnd(f))
    /\ \A q \in 1..Len(f.source) : f.source[q] # "}"

\* the found expressions are the spans of the raw string, from left to
\* right, none inside another and none left out
AreSpans(raw, found) ==
    /\ \A k \in 1..Len(found) : IsSpan(raw, found[k])
    /\ \A k \in 1..(Len(found) - 1) : SpanEnd(found[k]) < SpanStart(found[k + 1])
    /\ \A p \in 0..(Len(raw) - 1) :
           (OpensAt(raw, p) /\ ClosesAfter(raw, p))
               => \E k \in 1..Len(found) : SpanStart(found[k]) <= p /\ p <= SpanEnd(found[k])

\* C29: findExpressionsInString gives, for a string whose content begins
\* with $:, one expression, all the content after the prefix, at offset 3,
\* whatever the content holds; for any other string one expression for each
\* ${...} span, from left to right, the spans disjoint and each ending at
\* the first } after its ${, with the offset of the span plus 2.
C29_ExpressionsFound ==
    probe.kind = "find" =>
        IF IsShorthand(jstr.source)
        THEN probe.found = <<[source |-> SubSeq(jstr.source, 3, Len(jstr.source)), offset |-> 3]>>
        ELSE AreSpans(RawOf(jstr.source), probe.found)

\* two expressions found in one string whose second ${ follows a ${ that
\* lies inside the first span
C29_Witness ==
    /\ probe.kind = "find"
    /\ ~IsShorthand(jstr.source)
    /\ Len(probe.found) = 2
    /\ \E q \in 1..(Len(probe.found[1].source) - 1) :
           probe.found[1].source[q] = "$" /\ probe.found[1].source[q + 1] = "{"

\* the one expression of a shorthand whose content holds a ${...} span
C29_WitnessShorthand ==
    /\ probe.kind = "find"
    /\ IsShorthand(jstr.source)
    /\ Len(probe.found) = 1
    /\ \E q \in 1..(Len(probe.found[1].source) - 2) :
           /\ probe.found[1].source[q] = "$" /\ probe.found[1].source[q + 1] = "{"
           /\ probe.found[1].source[Len(probe.found[1].source)] = "}"

Max(S) == CHOOSE x \in S : \A y \in S : y <= x

\* the positions (1-based) at or before i that lie outside the quoted
\* substrings, a quote pairing with the nearest same quote before it
RECURSIVE OutsideQuotes(_, _)
OutsideQuotes(exp, i) ==
    IF i = 0 THEN {}
    ELSE IF exp[i] \in {"'", QUOTE}
    THEN IF {j \in 1..(i - 1) : exp[j] = exp[i]} = {} THEN {}
         ELSE OutsideQuotes(exp, Max({j \in 1..(i - 1) : exp[j] = exp[i]}) - 1)
    ELSE {i} \cup OutsideQuotes(exp, i - 1)

\* the brackets of the kind that close after position i less those that open
BracketDepth(exp, i, close, open) ==
    Cardinality({j \in OutsideQuotes(exp, Len(exp)) : j > i /\ exp[j] = close})
        - Cardinality({j \in OutsideQuotes(exp, Len(exp)) : j > i /\ exp[j] = open})

\* a stop position: an operator or comma outside quotes at depth zero of
\* every kind of bracket, or an opening bracket outside quotes that has no
\* partner after it
IsStop(exp, i) ==
    /\ i \in OutsideQuotes(exp, Len(exp))
    /\ \/ /\ exp[i] \in Operators
          /\ \A b \in {"(", "{", "["} : BracketDepth(exp, i, braceDict(b), b) = 0
       \/ /\ exp[i] \in {"(", "{", "["}
          /\ BracketDepth(exp, i, braceDict(exp[i]), exp[i]) = 0

\* the trimmed suffix after the last stop position, all of exp when it has none
AfterLastStop(exp) ==
    trim(SubSeq(exp, (IF \E i \in 1..Len(exp) : IsStop(exp, i)
                      THEN Max({i \in 1..Len(exp) : IsStop(exp, i)}) ELSE 0) + 1,
                Len(exp)))

IsSuffix(str, exp) ==
    Len(str) <= Len(exp) /\ SubSeq(exp, Len(exp) - Len(str) + 1, Len(exp)) = str

\* C30: getCurrentExpression(exp) gives the trimmed suffix of exp that
\* begins after the first stop met in the scan from the end: an operator or
\* comma at depth zero of every bracket and outside quotes, or a bracket
\* without a partner in the scanned part; operators inside balanced
\* brackets or quotes do not stop the scan; and the result is a suffix of
\* exp.
C30_CurrentExpression ==
    probe.kind = "current" =>
        /\ probe.result = AfterLastStop(jstr.source)
        /\ IsSuffix(probe.result, jstr.source)

\* the first half alone
C30_AfterLastStop == probe.kind = "current" => probe.result = AfterLastStop(jstr.source)

\* the second half alone
C30_ResultIsSuffix == probe.kind = "current" => IsSuffix(probe.result, jstr.source)

\* what holds of the code: the result is the trimmed suffix after the last
\* stop when the quotes of exp come in pairs, and it is always a suffix of
\* exp without the spaces at its end
C30_OfPairedQuotes ==
    probe.kind = "current" =>
        /\ Cardinality({i \in 1..Len(jstr.source) : jstr.source[i] = "'"}) % 2 = 0
               => probe.result = AfterLastStop(jstr.source)
        /\ IsSuffix(probe.result, trimEnd(jstr.source))

\* the example: for a + max(a, b.c the result is b.c
C30_Example ==
    (probe.kind = "current" /\ jstr.source = MaxExample) => probe.result = <<"b", ".", "c">>

\* the positions (1-based) at or before i that lie outside the quoted
\* substrings, a quote without a partner before it quoting nothing
RECURSIVE Unquoted(_, _)
Unquoted(exp, i) ==
    IF i = 0 THEN {}
    ELSE IF exp[i] \in {"'", QUOTE}
    THEN IF {j \in 1..(i - 1) : exp[j] = exp[i]} = {} THEN Unquoted(exp, i - 1)
         ELSE Unquoted(exp, Max({j \in 1..(i - 1) : exp[j] = exp[i]}) - 1)
    ELSE {i} \cup Unquoted(exp, i - 1)

\* the brackets of the kind that close after position i less those that
\* open, outside the quoted substrings
DepthAfter(exp, i, close, open) ==
    Cardinality({j \in Unquoted(exp, Len(exp)) : j > i /\ exp[j] = close})
        - Cardinality({j \in Unquoted(exp, Len(exp)) : j > i /\ exp[j] = open})

\* the opening brackets outside quotes that have no partner after them
Unclosed(exp) ==
    {i \in Unquoted(exp, Len(exp)) :
        /\ exp[i] \in {"(", "{", "["}
        /\ DepthAfter(exp, i, braceDict(exp[i]), exp[i]) = 0}

\* the commas after position i outside quotes at depth zero of every kind
CommasAfter(exp, i) ==
    {j \in Unquoted(exp, Len(exp)) :
        /\ j > i
        /\ exp[j] = ","
        /\ \A b \in {"(", "{", "["} : DepthAfter(exp, j, braceDict(b), b) = 0}

PairedQuotes(exp) == Cardinality({i \in 1..Len(exp) : exp[i] = "'"}) % 2 = 0

\* C31: getSignatureInfo(exp) returns null if and only if exp has no
\* unclosed opening bracket; otherwise paramIndex is the number of commas
\* after the innermost unclosed opening bracket at depth zero and outside
\* quoted substrings, and prefix and function are those of the expression
\* that immediately precedes that bracket.
C31_SignatureInfo ==
    probe.kind = "signature" =>
        /\ probe.info.null <=> Unclosed(jstr.source) = {}
        /\ ~probe.info.null =>
               /\ probe.info.paramIndex
                      = Cardinality(CommasAfter(jstr.source, Max(Unclosed(jstr.source))))
               /\ probe.info.info
                      = getPrefix(AfterLastStop(SubSeq(jstr.source, 1,
                                                       Max(Unclosed(jstr.source)) - 1)))

\* the first half alone
C31_NullIffNoUnclosed ==
    probe.kind = "signature" => (probe.info.null <=> Unclosed(jstr.source) = {})

\* what holds of the code: the claim for the texts whose quotes come in
\* pairs, and a result that is not null only when a bracket is unclosed
C31_OfPairedQuotes ==
    probe.kind = "signature" =>
        /\ ~probe.info.null => Unclosed(jstr.source) # {}
        /\ PairedQuotes(jstr.source) =>
               /\ probe.info.null <=> Unclosed(jstr.source) = {}
               /\ ~probe.info.null =>
                      /\ probe.info.paramIndex
                             = Cardinality(CommasAfter(jstr.source, Max(Unclosed(jstr.source))))
                      /\ probe.info.info
                             = getPrefix(AfterLastStop(SubSeq(jstr.source, 1,
                                                              Max(Unclosed(jstr.source)) - 1)))

\* a call with a member prefix and a second argument under the cursor
C31_Witness ==
    /\ probe.kind = "signature"
    /\ ~probe.info.null
    /\ probe.info.paramIndex = 1
    /\ probe.info.info.hasPrefix
    /\ probe.info.info.function = <<"f">>

Min(S) == CHOOSE x \in S : \A y \in S : x <= y

\* the positions (1-based) at or after i that lie outside the quoted
\* substrings, a quote pairing with the nearest same quote after it and
\* one without a partner quoting the rest
RECURSIVE UnquotedFrom(_, _)
UnquotedFrom(exp, i) ==
    IF i > Len(exp) THEN {}
    ELSE IF exp[i] \in {"'", QUOTE}
    THEN IF {j \in (i + 1)..Len(exp) : exp[j] = exp[i]} = {} THEN {}
         ELSE UnquotedFrom(exp, Min({j \in (i + 1)..Len(exp) : exp[j] = exp[i]}) + 1)
    ELSE {i} \cup UnquotedFrom(exp, i + 1)

\* the brackets of the kind that open after the first character and before
\* position i less those that close
DepthBefore(exp, i, open, close) ==
    Cardinality({j \in UnquotedFrom(exp, 2) : j < i /\ exp[j] = open})
        - Cardinality({j \in UnquotedFrom(exp, 2) : j < i /\ exp[j] = close})

\* the commas of the argument list before position end, outside quotes and
\* at depth zero of every kind of bracket
ArgumentCommas(exp, end) ==
    {j \in UnquotedFrom(exp, 2) :
        /\ j < end
        /\ exp[j] = ","
        /\ \A b \in {"(", "{", "["} : DepthBefore(exp, j, b, braceDict(b)) = 0}

\* the positions of the `)` that match the `(` at the start
MatchingParens(exp) ==
    {j \in UnquotedFrom(exp, 2) : exp[j] = ")" /\ DepthBefore(exp, j, "(", ")") = 0}

\* the closing brackets of any kind that have no opening bracket of their
\* kind between the start and them
FirstClosers(exp) ==
    {j \in UnquotedFrom(exp, 2) :
        /\ exp[j] \in {")", "}", "]"}
        /\ DepthBefore(exp, j, openerOf(exp[j]), exp[j]) = 0}

\* the count of the arguments that end before position end
ArgumentsBefore(exp, end) ==
    IF IsBlank(SubSeq(exp, 2, end - 1)) THEN 0
    ELSE 1 + Cardinality(ArgumentCommas(exp, end))

\* C32 as stated: for a text that starts with `(` the count is 0 when only
\* whitespace lies between it and its matching `)` and otherwise 1 plus the
\* commas of that list at depth zero, outside nested brackets and quotes,
\* the scan stopping at the matching `)`.
C32_StopsAtMatchingParen ==
    (/\ probe.kind = "params"
     /\ jstr.source # <<>>
     /\ jstr.source[1] = "("
     /\ MatchingParens(jstr.source) # {})
        => probe.count = ArgumentsBefore(jstr.source, Min(MatchingParens(jstr.source)))

\* C32: for a text that starts with `(` the count is 0 when only whitespace
\* lies between it and the stop and otherwise 1 plus the commas before the
\* stop at depth zero of every kind of bracket and outside quotes; the stop
\* is the first closing bracket of any kind that has no opening bracket of
\* its kind before it in the list (the matching `)` of a balanced list),
\* or the end of the text when there is none.
C32_StopsAtFirstCloser ==
    (/\ probe.kind = "params"
     /\ jstr.source # <<>>
     /\ jstr.source[1] = "(")
        => probe.count
               = ArgumentsBefore(jstr.source,
                                 IF FirstClosers(jstr.source) = {} THEN Len(jstr.source) + 1
                                 ELSE Min(FirstClosers(jstr.source)))

\* the example (1, xx(2, 3), 3) has 3 arguments, the commas of the inner
\* call not counted
C32_Witness ==
    /\ probe.kind = "params"
    /\ jstr.source = ParamsExample
    /\ probe.count = 3

\* an empty list followed by more text
C32_WitnessEmpty ==
    /\ probe.kind = "params"
    /\ Len(jstr.source) > 3
    /\ SubSeq(jstr.source, 1, 3) = <<"(", " ", ")">>
    /\ probe.count = 0

\* the Variables a point query at the offset has pushed, with the one of an
\* event handler, in the order of their pushes
PushedAt(root, layout, at) ==
    contextStateAt(root, fileData, PathAt(layout, at),
                   KeyAt(NodeAtPath(layout, PathAt(layout, at)), at), at).vars

\* the positions of the Variables of the name in the list
Named(vs, name) == {i \in 1..Len(vs) : vs[i].name = name}

\* the keys of the properties of the objects under the node, with the
\* offsets of the keys
RECURSIVE KeysUnder(_)
KeysUnder(node) ==
    CASE node.type = "object" ->
           {[key |-> node.props[i].key, offset |-> node.props[i].keyOffset] :
               i \in 1..Len(node.props)}
           \cup UNION {KeysUnder(node.props[i].value) : i \in 1..Len(node.props)}
      [] node.type = "array" -> UNION {KeysUnder(node.items[i]) : i \in 1..Len(node.items)}
      [] OTHER -> {}

\* C40: for a bare identifier under the cursor, provideDefinition targets
\* the source node of the innermost binding of the name in the context of
\* the cursor location, the last pushed among the bindings of that name, in
\* the data file when the binding came from the file data and otherwise in
\* the document, where the node is a property of that name; it returns
\* nothing when that binding has no source node or the name has none.
C40_InnermostBinding ==
    probe.kind = "definition" =>
        LET root == ParseText(rootNode)
            vs == PushedAt(root, getPropertyNode(root, "layout"), probe.at)
            same == Named(vs, probe.name)
        IN IF same = {} \/ ~vs[Max(same)].hasNode
           THEN probe.target.null
           ELSE /\ ~probe.target.null
                /\ probe.target.inData = vs[Max(same)].hasUri
                /\ probe.target.offset = vs[Max(same)].keyOffset
                /\ ~probe.target.inData =>
                       [key |-> probe.name, offset |-> probe.target.offset] \in KeysUnder(root)
                /\ probe.target.inData =>
                       /\ probe.target.offset \in 1..Len(fileData)
                       /\ fileData[probe.target.offset].key = probe.name

\* the part about member access: with a prefix that is not empty before
\* the last dot of the current expression there is no target, and the bare
\* names a, b and f have theirs
C40_MemberAccess ==
    probe.kind = "word" =>
        LET split == getPrefix(getCurrentExpression(jstr.source)) IN
        /\ (split.hasPrefix /\ split.prefix # <<>>) => probe.target.null
        /\ (~split.hasPrefix /\ split.function \in {<<"a">>, <<"b">>, <<"f">>})
               => ~probe.target.null

\* a name bound by two nodes of the document: the target is the later one
C40_Witness ==
    /\ probe.kind = "definition"
    /\ ~probe.target.null
    /\ ~probe.target.inData
    /\ LET root == ParseText(rootNode)
           vs == PushedAt(root, getPropertyNode(root, "layout"), probe.at)
       IN \E i \in Named(vs, probe.name) :
              /\ vs[i].hasNode
              /\ vs[i].keyOffset < probe.target.offset

\* a name bound by the file data
C40_WitnessData ==
    /\ probe.kind = "definition"
    /\ ~probe.target.null
    /\ probe.target.inData

\* a name bound last without a source node
C40_WitnessNoNode ==
    /\ probe.kind = "definition"
    /\ probe.target.null
    /\ LET root == ParseText(rootNode)
       IN Named(PushedAt(root, getPropertyNode(root, "layout"), probe.at), probe.name) # {}

\* a member access under the cursor
C40_WitnessMember ==
    /\ probe.kind = "word"
    /\ jstr.source = <<"a", ".", "f">>
    /\ probe.target.null

(***************************************************************************)
(* Claims about the workspace                                              *)
(***************************************************************************)
\* no cached tree, template or data
Fresh(doc) ==
    /\ ~doc.null
    /\ doc.datas.null
    /\ doc.dataFile = NoFile
    /\ doc.dataIndex = 0
    /\ doc.rootNode = NoText
    /\ doc.template = NoText
    /\ doc.nodeTree = NoText

\* C16: after the close of a document its uri yields no document, an open
\* yields a fresh MistDocument, and the open or close of one uri changes
\* neither the entry nor the cache of any other uri.
C16_OpenCloseLocal ==
    [][\A uri \in MistFiles :
          /\ onDidCloseTextDocument(uri) =>
                 /\ getDocumentByUri(documents', uri).null
                 /\ \A v \in DOMAIN documents \ {uri} : documents'[v] = documents[v]
          /\ onDidOpenTextDocument(uri) =>
                 /\ Fresh(getDocumentByUri(documents', uri))
                 /\ \A v \in DOMAIN documents \ {uri} : documents'[v] = documents[v]]_vars

\* C16 (amended): the same, but that the open of a document in a directory
\* that is not in the index yet may clear the data list of the other open
\* documents; it changes nothing else of them, and an open in a directory
\* already in the index changes nothing of them at all.
C16_OpenCloseLocalButDatas ==
    [][\A uri \in MistFiles :
          /\ onDidCloseTextDocument(uri) =>
                 /\ getDocumentByUri(documents', uri).null
                 /\ \A v \in DOMAIN documents \ {uri} : documents'[v] = documents[v]
          /\ onDidOpenTextDocument(uri) =>
                 /\ Fresh(getDocumentByUri(documents', uri))
                 /\ \A v \in DOMAIN documents \ {uri} :
                        /\ documents'[v] \in
                               {documents[v]} \cup
                               (IF documents[v].null THEN {} ELSE {clearDatas(documents[v])})
                        /\ uri.dir \in DOMAIN dataMap => documents'[v] = documents[v]]_vars

\* a cached data list is the list getData would compute from the index, so
\* a cleared list is recomputed to what it was
C16_CachedDatasCurrent ==
    \A uri \in DOMAIN documents :
        (~documents[uri].null /\ ~documents[uri].datas.null) =>
            documents[uri].datas.list = getDataOf(dataMap, uri.dir, uri.base)

\* one document closed while the other is open with a tree and a data list
C16_Witness ==
    \E uri \in DOMAIN documents, v \in DOMAIN documents :
        /\ uri # v
        /\ documents[uri].null
        /\ ~documents[v].null
        /\ ~documents[v].datas.null
        /\ documents[v].datas.list # <<>>
        /\ documents[v].rootNode # NoText

\* dataMap[dir][file], nothing when the file has no entry
EntriesOf(map, file) ==
    IF file.dir \in DOMAIN map /\ \E i \in 1..Len(map[file.dir]) : map[file.dir][i].file = file
    THEN map[file.dir][CHOOSE i \in 1..Len(map[file.dir]) : map[file.dir][i].file = file].datas
    ELSE <<>>

\* the data entries of a text of the file
Extracted(file, text) ==
    IF file.ext # MOCK_EXT THEN travelTree(ParseFileText(text), file)
    ELSE IF ParseFileText(text).type = "array"
    THEN parseMockDatas(ParseFileText(text).items, file)
    ELSE parseMockData(ParseFileText(text), file)

AllDatasCleared(docs) == \A k \in DOMAIN docs : ~docs[k].null => docs[k].datas.null

\* C17: after the save of a data file the index holds for it exactly the
\* entries of its current text, and the data list of every open document
\* is cleared.
C17_RebuiltOnSave ==
    [][\A file \in DataFiles : \A text \in TextsOf(file) :
          onDidSaveTextDocument(file, text) =>
              /\ EntriesOf(dataMap', file) = Extracted(file, disk'[file])
              /\ AllDatasCleared(documents')]_vars

\* what the save does: the same for a text that is not empty and parses
C17_RebuiltOnSaveOfValue ==
    [][\A file \in DataFiles : \A text \in TextsOf(file) :
          (onDidSaveTextDocument(file, text) /\ text.kind = "json") =>
              /\ EntriesOf(dataMap', file) = Extracted(file, disk'[file])
              /\ AllDatasCleared(documents')]_vars

\* the file has been read into the index: dataMap[dir][file] holds the
\* entries of its text
ReadInto(map, file, fs) ==
    /\ file.dir \in DOMAIN map
    /\ \E i \in 1..Len(map[file.dir]) : map[file.dir][i].file = file
    /\ EntriesOf(map, file) = Extracted(file, fs[file])

\* the data files of the directory whose text holds a value
ValueFiles(dir, fs) == {f \in DataFiles : f.dir = dir /\ fs[f].kind = "json"}

\* C35: once a mist document of directory D has been opened, every .json
\* file of D has been read into dataMap[D], whatever saves and opens came
\* before that open.
C35_DirectoryRead ==
    \A uri \in DOMAIN documents :
        \A file \in ValueFiles(uri.dir, disk) : ReadInto(dataMap, file, disk)

\* what holds of the code: the open of a document whose directory the index
\* does not hold yet reads every file of it, unless one of them fails to
\* parse
C35_FirstOpenReads ==
    [][\A uri \in MistFiles :
          (/\ onDidOpenTextDocument(uri)
           /\ uri.dir \notin DOMAIN dataMap
           /\ \A f \in DataFiles : f.dir = uri.dir => disk[f].kind # "blank")
              => \A file \in ValueFiles(uri.dir, disk') : ReadInto(dataMap', file, disk')]_vars

\* the open documents
OpenUris == {uri \in DOMAIN documents : ~documents[uri].null}

\* C36: whenever the data list of a document is not empty, getData()
\* returns one of its entries and never null, after any setData calls and
\* re-indexings of the data files.
C36_NeverNull ==
    \A uri \in OpenUris :
        getDataIn(documents[uri], dataMap).datas.list # <<>>
            => ~getDataResult(getDataIn(documents[uri], dataMap)).null

\* what holds of the code: a document with no data file selected yet gets
\* the first entry of a list that is not empty
C36_FirstWhenUnselected ==
    \A uri \in OpenUris :
        (/\ getDataIn(documents[uri], dataMap).datas.list # <<>>
         /\ documents[uri].dataFile = NoFile)
            => getDataResult(getDataIn(documents[uri], dataMap)).position = 1

\* the list getDatas() gives for the document in the workspace
ListOf(docs, map, uri) ==
    IF getDocumentByUri(docs, uri).null THEN <<>> ELSE getDatasIn(docs[uri], map).datas.list

\* the entries setData is called with
Candidates(uri) ==
    {ListOf(documents, dataMap, uri)[i] : i \in 1..Len(ListOf(documents, dataMap, uri))}
        \cup {ForeignData}

\* C37: setData followed by getData is a round trip: after setData(d) for
\* an entry d of getDatas(), getData() returns d itself, whether the
\* entries of the template come from one file or several; after setData
\* with an entry that is not in the list it returns the first entry.
C37_SetGetRoundTrip ==
    [][\A uri \in MistFiles : \A d \in Candidates(uri) :
          (setData(uri, d) /\ ListOf(documents, dataMap, uri) # <<>>) =>
              LET list == ListOf(documents', dataMap', uri)
                  result == getDataResult(getDataIn(documents'[uri], dataMap'))
              IN /\ list = ListOf(documents, dataMap, uri)
                 /\ ~result.null
                 /\ IF \E i \in 1..Len(list) : list[i] = d
                    THEN /\ list[result.position] = d
                         /\ \A i \in 1..Len(list) : list[i] = d => i = result.position
                    ELSE result.position = 1]_vars

\* the second of two entries of one file selected, in a list that holds an
\* entry of another file as well
C37_Witness ==
    \E uri \in OpenUris :
        /\ documents[uri].dataIndex = 1
        /\ ~documents[uri].datas.null
        /\ Len(documents[uri].datas.list) = 3
        /\ \E i \in 1..3 : documents[uri].datas.list[i].file # documents[uri].dataFile
        /\ ~getDataResult(getDataIn(documents[uri], dataMap)).null
        /\ documents[uri].datas.list[getDataResult(getDataIn(documents[uri], dataMap)).position].index
               = 1

\* C38: in every interleaving of open, close and change notifications the
\* handling of a change completes without failure, and a change for a uri
\* that has no live document (never opened, or closed) is ignored and
\* leaves all state unchanged.
C38_ChangeCompletes ==
    [][\A uri \in MistFiles :
          onDidChangeTextDocument(uri) =>
              /\ probe' # TypeError
              /\ getDocumentByUri(documents, uri).null => UNCHANGED vars]_vars

\* what holds of the code: a change for a live document completes and
\* forgets its tree and template, leaving the other documents and the
\* index alone; a change for a uri without one fails and changes nothing of
\* the documents and the index
C38_ChangeOfLiveDocument ==
    [][\A uri \in MistFiles :
          onDidChangeTextDocument(uri) =>
              /\ dataMap' = dataMap
              /\ \A v \in DOMAIN documents \ {uri} : documents'[v] = documents[v]
              /\ IF getDocumentByUri(documents, uri).null
                 THEN probe' = TypeError /\ documents' = documents
                 ELSE /\ probe' = probe
                      /\ documents'[uri].rootNode = NoText
                      /\ documents'[uri].template = NoText]_vars

====
